---- MODULE Spec2Model ----
(***************************************************************************)
(* Model of the KiCad LLM plugin: the ConfigManager (plugins/config.py)    *)
(* and the batch driver MultiModelAnalyzer (analyze_models.py).            *)
(*                                                                         *)
(* Python strings that the code inspects (model ids, provider names) are   *)
(* sequences of one-character strings, so that the split on "/" is         *)
(* computed.  Opaque strings (API keys, error texts) are TLA+ strings.     *)
(***************************************************************************)
EXTENDS Integers, Sequences, FiniteSets, TLC

\* ------------------------------------------------------------------ bounds
\* number of _save_config calls (datetime.now() readings) in one behaviour
MaxClock == 3

\* ---------------------------------------------------------------- strings
\* model ids and provider names used as inputs
m_a_m    == <<"a", "/", "m">>                  \* "a/m"
m_a_n    == <<"a", "/", "n">>                  \* "a/n"
m_a_b_m  == <<"a", "/", "b", "/", "m">>        \* "a/b/m"  (several slashes)
m_b_m    == <<"b", "/", "m">>                  \* "b/m"
m_b      == <<"b">>                            \* "b"      (no slash)
p_a      == <<"a">>
p_b      == <<"b">>
p_a_b    == <<"a", "/", "b">>                  \* a "provider" holding a slash

\* "openai/gpt-4o-mini", the fallback model of _load_config and
\* get_selected_model; it is not one of the inputs above
DefaultModel == <<"o", "/", "4">>

\* dict.get() on a missing entry, and JSON null
NoneVal == "<None>"
\* a getter that raises instead of returning (one sentinel per result type)
Raises == "<raises>"
RaisesSeq == <<"!">>
\* marks an entry a dict does not have
Missing == <<"?">>

ModelInputs    == {m_a_m, m_a_b_m, m_b}
\* the models offered to set_selected_model
SelectInputs   == {m_a_n, m_b}
ProviderInputs == {p_a, p_b, p_a_b}
KeyInputs      == {"k1", "k2"}

\* str.split(sep): the pieces of s between the occurrences of sep
RECURSIVE split(_, _)
split(s, sep) ==
    IF \A i \in 1..Len(s) : s[i] # sep
    THEN <<s>>
    ELSE LET j == CHOOSE i \in 1..Len(s) :
                      s[i] = sep /\ \A k \in 1..(i - 1) : s[k] # sep
         IN  <<SubSeq(s, 1, j - 1)>> \o split(SubSeq(s, j + 1, Len(s)), sep)

\* a plausible slip: the piece before the LAST "/" (rsplit("/", 1)[0])
extract_provider_rsplit(model_name) ==
    IF \E i \in 1..Len(model_name) : model_name[i] = "/"
    THEN LET j == CHOOSE i \in 1..Len(model_name) :
                      model_name[i] = "/"
                      /\ \A k \in (i + 1)..Len(model_name) : model_name[k] # "/"
         IN  SubSeq(model_name, 1, j - 1)
    ELSE model_name

\* ConfigManager._extract_provider_from_model
_extract_provider_from_model(model_name) ==
    IF \E i \in 1..Len(model_name) : model_name[i] = "/"
    THEN split(model_name, "/")[1]
    ELSE model_name

\* every provider name that can become an entry of provider_api_keys
ProviderUniverse ==
    ProviderInputs \cup {_extract_provider_from_model(m) : m \in ModelInputs}
        \cup {_extract_provider_from_model(DefaultModel)}

\* ------------------------------------------------------- the configuration
\* self._config, the value json.load returned or the default dict:
\*   shape  "dict", or "list" for a JSON document that is not an object
\*   sm     "selected_model", Missing when the dict has no such entry
\*   pk     "map" when "provider_api_keys" is a dict, "null" when it is
\*          another JSON value, "missing" when the dict has no such entry
\*   keys   the entries of provider_api_keys (NoneVal: no entry)
\*   lu     "last_updated": 0 is None, n > 0 the n-th clock reading
NoKeys == [p \in ProviderUniverse |-> NoneVal]

DefaultConfig ==
    [shape |-> "dict", sm |-> DefaultModel, pk |-> "map", keys |-> NoKeys, lu |-> 0]

\* the file: absent, undecodable bytes, text that is not JSON, or JSON
AbsentFile  == [kind |-> "absent",  val |-> DefaultConfig]
BadEncFile  == [kind |-> "badenc",  val |-> DefaultConfig]
BadJsonFile == [kind |-> "badjson", val |-> DefaultConfig]
JsonFile(c) == [kind |-> "json", val |-> c]

\* file contents found at start-up
InitFiles ==
    { AbsentFile, BadEncFile, BadJsonFile,
      JsonFile([DefaultConfig EXCEPT !.shape = "list"]),                 \* []
      JsonFile([DefaultConfig EXCEPT !.sm = Missing, !.pk = "missing"]), \* {}
      JsonFile([DefaultConfig EXCEPT !.pk = "null"]),
      JsonFile([DefaultConfig EXCEPT !.sm = m_a_m, !.lu = 0,
                    !.keys = [NoKeys EXCEPT ![p_a] = "k1", ![p_b] = ""]]) }

\* the ConfigManager objects: 1 is the global config_manager of config.py, 2
\* the one MultiModelAnalyzer constructs, 3 one of a later process
Instances == {1, 2, 3}

VARIABLES
    file,     \* content of ~/.kicad/kicad_llm_config.json
    clock,    \* number of datetime.now() readings so far
    st,       \* per ConfigManager: "unborn", "ok", or "raised" (__init__ raised)
    cfg,      \* per ConfigManager: self._config
    hist,     \* per ConfigManager and provider, the last completed key call:
              \* "<none>", the key that was set, or "<removed>"/"<removed0>"
    lastop    \* the last ConfigManager call and how it went

cvars == <<file, clock, st, cfg, hist, lastop>>

\* the MultiModelAnalyzer of analyze_models.py; its ConfigManager is cfg[2]
VARIABLES
    selected,   \* self.selected_models: [given, models]; given FALSE is None
    errors,     \* self.errors: model id -> error text (NoError: no entry)
    pc,         \* "idle"; inside run_analysis "loop" (between two models) or
                \* "call" (inside LLMOperations); "dcall" for a direct
                \* analyze_with_model call that is inside LLMOperations
    avail,      \* run_analysis: available_models
    idx,        \* run_analysis: position of the for loop in available_models
    results,    \* run_analysis: the results dict, in insertion order
    reports,    \* the per-model HTML reports written by the current run
    summary,    \* the rows of the comparison summary written by the current run
    ended,      \* how the last run_analysis call ended: "none" (no call yet or
                \* running), "empty" (returned {}), "summary", "aborted"
    cur,        \* the model id of the analyze_with_model call in progress, or of
                \* the last one
    callio,     \* clients constructed and requests issued by the last call
    outcomes,   \* what each analyze_with_model call of the current run met
    lastret,    \* per model id: what its last analyze_with_model call returned
    runs,       \* number of run_analysis calls so far
    directs     \* number of direct analyze_with_model calls so far

bvars == <<selected, errors, pc, avail, idx, results, reports, summary, ended,
           cur, callio, outcomes, lastret, runs, directs>>

\* the two sorters of findings, each applied to the same input list
VARIABLES
    unsorted,    \* the findings handed to the sorters
    gui_sorted,  \* what SchematicLLMCheckerDialog.sort_findings returned
    html_sorted, \* the rows save_to_html wrote, once sorted
    sort_done    \* which of the two sorters have run: "gui", "html"

svars == <<unsorted, gui_sorted, html_sorted, sort_done>>

\* one LLMOperations object of llm_operations.py
VARIABLES
    lmodel,      \* self.model_name
    lcall,       \* the call in progress or the last call: method, arguments
                 \* and what create() did ("pending", "ok", "raises")
    lpc,         \* "none" (no object), "idle", or "request" (inside create())
    requests,    \* the messages payloads passed to create() by that call
    lret,        \* how the last call ended: "none", "result" or "raised"
    lcalls       \* number of calls so far

lvars == <<lmodel, lcall, lpc, requests, lret, lcalls>>

\* the SchematicLLMCheckerDialog of gui.py, its worker threads and core.run
VARIABLES
    dlg,         \* "none", or "open" while the dialog is shown
    run_button,  \* self.run_button: [enabled, label]
    worker,      \* per Run click: where its _run_analysis_thread is
    uiq,         \* the callbacks posted with wx.CallAfter, oldest first
    shown,       \* the message boxes shown so far, oldest first
    core_io,     \* clients constructed and requests issued by core.run so far
    lastrun,     \* the last core.run call: what it met and what it returned
    clicks       \* number of Run clicks so far

gvars == <<dlg, run_button, worker, uiq, shown, core_io, lastrun, clicks>>

\* a text that is None
NoneText == <<"<None>">>

\* one run of the batch script, main() of analyze_models.py
VARIABLES
    args,        \* the parsed command line
    mainpc,      \* "none" (no script), "start", "construct" (inside
                 \* MultiModelAnalyzer.__init__), "run", "exited"
    exit_code    \* the exit status of the process, -1 while it runs

mvars == <<args, mainpc, exit_code>>

\* one call of MultiModelAnalyzer.save_to_csv and the file it wrote
VARIABLES
    csv_findings,  \* the findings argument
    csv_file,      \* the text of the file, NoneText while there is none
    csv_rows,      \* the rows csv.reader has yielded for the file
    csv_reader,    \* csv.reader: its position in the text and its state
    csv_pc         \* "none", "idle" (before the call), "written", "read"

fvars == <<csv_findings, csv_file, csv_rows, csv_reader, csv_pc>>

\* what the dialog shows: the findings, the filter checkboxes, the export
VARIABLES
    self_findings,      \* self.findings
    filtered_findings,  \* self.filtered_findings, the rows of the list
    all_checkbox,       \* self.all_checkbox.GetValue()
    checkboxes,         \* self.checkboxes: level -> GetValue()
    findings_by,        \* the model id whose analysis gave self.findings
    exported,           \* the last HTML report written by _export_to_html
    handled,            \* the callbacks the main thread has run, oldest first
    events              \* number of checkbox, Configuration and export events

dvars == <<self_findings, filtered_findings, all_checkbox, checkboxes, findings_by,
           exported, handled, events>>

\* what belongs to neither the ConfigManagers, the analyzer nor the dialog
yvars == <<mvars, fvars>>

\* everything but the ConfigManagers and the analyzer
xvars == <<svars, lvars, gvars, dvars, yvars>>

\* FindingLevel.ALL_LEVELS
ALL_LEVELS == <<"Fatal", "Major", "Minor", "Best Practice", "Nice To Have">>

\* no report was exported
NoReport == [model |-> Missing, rows |-> <<>>]

\* what the dialog shows after __init__ and setup_ui: no findings, "All" and
\* every level checkbox checked
DRest ==
    /\ self_findings = <<>>
    /\ filtered_findings = <<>>
    /\ all_checkbox = TRUE
    /\ checkboxes = [l \in {ALL_LEVELS[k] : k \in 1..Len(ALL_LEVELS)} |-> TRUE]
    /\ findings_by = Missing
    /\ exported = NoReport
    /\ handled = <<>>
    /\ events = 0

\* --netlist and --schematic name a file that exists or not; --schematic and
\* --models may be left out (schematic "none", models NoneText)
Args(list_models, netlist, schematic, models) ==
    [list_models |-> list_models, netlist |-> netlist,
     schematic |-> schematic, models |-> models]

NoArgs == Args(FALSE, "exists", "none", NoneText)

\* no batch script
MAbsent ==
    /\ args = NoArgs
    /\ mainpc = "none"
    /\ exit_code = -1

\* save_to_csv is not called
FAbsent ==
    /\ csv_findings = <<>>
    /\ csv_file = NoneText
    /\ csv_rows = <<>>
    /\ csv_reader = [i |-> 1, state |-> "start_record", field |-> <<>>, row |-> <<>>]
    /\ csv_pc = "none"

MaxCalls  == 2
MaxClicks == 2

\* no sorter has run
SIdle ==
    /\ unsorted = <<>>
    /\ gui_sorted = <<>>
    /\ html_sorted = <<>>
    /\ sort_done = {}

\* no LLMOperations call yet
NoCall == [method |-> "none", netlist |-> NoneText, schematic |-> NoneText,
           outcome |-> "none"]

\* no LLMOperations object
LAbsent ==
    /\ lmodel = Missing
    /\ lcall = NoCall
    /\ lpc = "none"
    /\ requests = <<>>
    /\ lret = "none"
    /\ lcalls = 0


\* TokenUsage with every counter n; TokenUsage() is TokenUsage(0)
TokenUsage(n) ==
    [input_tokens |-> n, output_tokens |-> n, cache_creation_input_tokens |-> n,
     cache_read_input_tokens |-> n, total_tokens |-> n,
     response_time_seconds |-> n]

\* what core.run gives its caller: kind "raised" with the exception text, or
\* kind "ret" with findings (absent: None), project path and token usage
RunRet(kind, text, absent, findings, project_path, usage) ==
    [kind |-> kind, text |-> text, absent |-> absent, findings |-> findings,
     project_path |-> project_path, usage |-> usage]

NoRet == RunRet("none", "", TRUE, <<>>, NoneVal, TokenUsage(0))

\* one core.run call: what it gave, the clients and requests it made, and
\* what the export yielded ("none" when the export was not reached)
Ran(ret, nclients, nrequests, export) ==
    [ret |-> ret, clients |-> nclients, requests |-> nrequests, export |-> export]

\* the last core.run call with what it met: how LLMOperations behaved and
\* what the exporter found
LastRun(r, o, env) == [call |-> r, o |-> o, env |-> env]

\* core.run not called yet
NoRun == LastRun(Ran(NoRet, 0, 0, "none"), "none",
                 [kicad |-> "none", docs |-> FALSE, project |-> "none",
                  binary |-> FALSE, cli |-> "none", netlist |-> NoneText])

\* a _run_analysis_thread that was not started: pc is "unborn", then
\* "begin", "blocking" (inside core.run), "finally" and "done"
NoWorker == [pc |-> "unborn", model |-> Missing, key |-> NoneVal]

\* the Run button as setup_ui makes it
RunButton == [enabled |-> TRUE, label |-> "Run"]

\* every part of the dialog but dlg, as __init__ leaves it
GRest ==
    /\ run_button = RunButton
    /\ worker = [w \in 1..MaxClicks |-> NoWorker]
    /\ uiq = <<>>
    /\ shown = <<>>
    /\ core_io = [clients |-> 0, requests |-> 0]
    /\ lastrun = NoRun
    /\ clicks = 0

\* no dialog
GAbsent == dlg = "none" /\ GRest

NoOp == [op |-> "none", inst |-> 0, raised |-> FALSE, wrote |-> "none",
         arg |-> Missing, val |-> NoneVal]

Op(name, i, raised, wrote, arg, val) ==
    [op |-> name, inst |-> i, raised |-> raised, wrote |-> wrote,
     arg |-> arg, val |-> val]

\* ConfigManager._load_config; io is TRUE when open() raises IOError.
\* Only JSONDecodeError and IOError are caught: the UnicodeDecodeError of
\* f.read() on undecodable bytes leaves _load_config and __init__.
_load_config_raises(f, io) ==
    f.kind = "badenc" /\ ~io

\* ConfigManager._load_config, the dict it returns when it returns
_load_config(f, io) ==
    IF f.kind = "absent" THEN DefaultConfig
    ELSE IF io THEN DefaultConfig
    ELSE IF f.kind = "badjson" THEN DefaultConfig       \* JSONDecodeError
    ELSE IF f.kind = "json" THEN f.val                   \* whatever JSON it is
    ELSE DefaultConfig

\* a plausible slip: .get("selected_model") without the default
get_selected_model_no_default(c) ==
    IF c.shape # "dict" THEN RaisesSeq
    ELSE c.sm

\* ConfigManager.get_selected_model
get_selected_model(c) ==
    IF c.shape # "dict" THEN RaisesSeq                   \* list has no .get
    ELSE IF c.sm = Missing THEN DefaultModel
    ELSE c.sm

\* ConfigManager.get_api_key
get_api_key(c, model_name) ==
    LET provider == _extract_provider_from_model(model_name) IN
    IF c.shape # "dict" THEN Raises
    ELSE IF c.pk = "missing" THEN NoneVal                \* {}.get(provider)
    ELSE IF c.pk = "null" THEN Raises                    \* None.get
    ELSE c.keys[provider]

\* ConfigManager.get_all_provider_api_keys
get_all_provider_api_keys(c) ==
    IF c.shape # "dict" \/ c.pk = "null" THEN [p \in ProviderUniverse |-> Raises]
    ELSE IF c.pk = "missing" THEN NoKeys
    ELSE c.keys

\* ConfigManager.get_providers_with_keys
get_providers_with_keys(c) ==
    IF c.shape # "dict" \/ c.pk = "null" THEN {RaisesSeq}
    ELSE IF c.pk = "missing" THEN {}
    ELSE {p \in ProviderUniverse : c.keys[p] # NoneVal}

\* the outcomes of the write in _save_config: written, open() raised IOError
\* (file untouched), or IOError after open(..., 'w') had truncated the file
WriteOutcomes == {"ok", "openfail", "truncated"}

\* a plausible slip: the file gets only the entry that changed; here the
\* stale timestamp of the previous file is kept
save_file_partial(f, c, w) ==
    IF w = "ok"
    THEN IF f.kind = "json" THEN JsonFile([c EXCEPT !.lu = f.val.lu]) ELSE JsonFile(c)
    ELSE IF w = "openfail" THEN f
    ELSE BadJsonFile

\* a plausible slip: read-modify-write, the keys the file holds and this
\* ConfigManager does not are kept
save_file_merge(f, c, w) ==
    IF w = "ok"
    THEN IF f.kind = "json"
         THEN JsonFile([c EXCEPT !.keys =
                  [p \in ProviderUniverse |->
                      IF c.keys[p] = NoneVal THEN f.val.keys[p] ELSE c.keys[p]]])
         ELSE JsonFile(c)
    ELSE IF w = "openfail" THEN f
    ELSE BadJsonFile

\* ConfigManager._save_config, the file after json.dump(self._config, f)
save_file(f, c, w) ==
    IF w = "ok" THEN JsonFile(c)
    ELSE IF w = "openfail" THEN f
    ELSE BadJsonFile

\* ConfigManager._save_config, self._config after the timestamp is set
save_config(c, now) == [c EXCEPT !.lu = now]

CInit ==
    /\ file \in InitFiles
    /\ clock = 0
    /\ st = [i \in Instances |-> "unborn"]
    /\ cfg = [i \in Instances |-> DefaultConfig]
    /\ hist = [i \in Instances |-> [p \in ProviderUniverse |-> "<none>"]]
    /\ lastop = NoOp

\* ConfigManager.__init__
Construct(i) ==
    /\ st[i] = "unborn"
    /\ \E io \in BOOLEAN :
         LET c == _load_config(file, io) IN
         IF _load_config_raises(file, io)
         THEN /\ st' = [st EXCEPT ![i] = "raised"]
              /\ cfg' = cfg
              /\ lastop' = Op("__init__", i, TRUE, "none", Missing, NoneVal)
         ELSE /\ st' = [st EXCEPT ![i] = "ok"]
              /\ cfg' = [cfg EXCEPT ![i] = c]
              /\ lastop' = Op("__init__", i, FALSE, "none", Missing, NoneVal)
    /\ UNCHANGED <<file, clock, hist>>
    /\ UNCHANGED <<bvars, xvars>>
\* --------------------------------------------------------------- mutators
\* a plausible slip: an existing entry is kept (dict.setdefault)
cfg_set_key_setdefault(c, provider, api_key) ==
    LET old == IF c.pk = "missing" THEN NoKeys ELSE c.keys IN
    [c EXCEPT !.pk = "map",
              !.keys = IF old[provider] = NoneVal
                       THEN [old EXCEPT ![provider] = api_key] ELSE old]

\* set_api_key_for_provider, lines 62-65: self._config after the assignment
cfg_set_key(c, provider, api_key) ==
    LET old == IF c.pk = "missing" THEN NoKeys ELSE c.keys IN
    [c EXCEPT !.pk = "map", !.keys = [old EXCEPT ![provider] = api_key]]

\* a plausible slip: the entry is left in place
cfg_remove_key_keep(c, provider) == c

\* remove_api_key_for_provider, line 75: self._config after the del
cfg_remove_key(c, provider) ==
    [c EXCEPT !.keys = [c.keys EXCEPT ![provider] = NoneVal]]

\* a plausible slip: IOError is not caught and leaves the mutator
save_raises_uncaught(w) == w # "ok"

\* _save_config, lines 34-38: does the write failure leave _save_config?
save_raises(w) == FALSE

\* the statements of a mutator raise TypeError before _save_config is reached
set_selected_model_raises(c) == c.shape # "dict"
set_key_raises(c) == c.shape # "dict" \/ c.pk = "null"
remove_key_raises(c) == c.shape = "dict" /\ c.pk = "null"

\* a plausible slip: the entry is deleted and the file saved without looking
has_key_unchecked(c, provider) == TRUE

\* "provider_api_keys" in self._config and provider in it
has_key(c, provider) ==
    c.shape = "dict" /\ c.pk = "map" /\ c.keys[provider] # NoneVal

\* hist after a completed remove: "<removed>" when this ConfigManager had set
\* a key for the provider before, "<removed0>" when it never had
Removed(h) == IF h \in {"<none>", "<removed0>"} THEN "<removed0>" ELSE "<removed>"

\* the tail shared by the mutators: self._config = c1, then _save_config()
Commit(i, c1, w, name, arg, val) ==
    /\ clock < MaxClock
    /\ clock' = clock + 1
    /\ cfg' = [cfg EXCEPT ![i] = save_config(c1, clock + 1)]
    /\ file' = save_file(file, save_config(c1, clock + 1), w)
    /\ lastop' = Op(name, i, save_raises(w), w, arg, val)

\* a call that raises before it changed anything
Fail(i, name, arg, val) ==
    /\ lastop' = Op(name, i, TRUE, "none", arg, val)
    /\ UNCHANGED <<file, clock, cfg, hist>>

\* ConfigManager.set_selected_model
set_selected_model(i, model_name) ==
    /\ st[i] = "ok"
    /\ IF set_selected_model_raises(cfg[i])
       THEN Fail(i, "set_selected_model", model_name, NoneVal)
       ELSE /\ \E w \in WriteOutcomes :
                 Commit(i, [cfg[i] EXCEPT !.sm = model_name], w,
                        "set_selected_model", model_name, NoneVal)
            /\ UNCHANGED hist
    /\ UNCHANGED st
    /\ UNCHANGED <<bvars, xvars>>

\* body of set_api_key_for_provider, reached directly or from set_api_key
do_set_key(i, provider, api_key, name, arg) ==
    /\ st[i] = "ok"
    /\ IF set_key_raises(cfg[i])
       THEN Fail(i, name, arg, api_key)
       ELSE /\ \E w \in WriteOutcomes :
                 Commit(i, cfg_set_key(cfg[i], provider, api_key), w,
                        name, arg, api_key)
            /\ hist' = [hist EXCEPT ![i][provider] = api_key]
    /\ UNCHANGED st
    /\ UNCHANGED <<bvars, xvars>>

\* body of remove_api_key_for_provider, reached directly or from remove_api_key
do_remove_key(i, provider, name, arg) ==
    /\ st[i] = "ok"
    /\ IF remove_key_raises(cfg[i])
       THEN Fail(i, name, arg, NoneVal)
       ELSE IF has_key(cfg[i], provider)
       THEN /\ \E w \in WriteOutcomes :
                 Commit(i, cfg_remove_key(cfg[i], provider), w,
                        name, arg, NoneVal)
            /\ hist' = [hist EXCEPT ![i][provider] = Removed(hist[i][provider])]
       ELSE /\ lastop' = Op(name, i, FALSE, "none", arg, NoneVal)
            /\ hist' = [hist EXCEPT ![i][provider] = Removed(hist[i][provider])]
            /\ UNCHANGED <<file, clock, cfg>>
    /\ UNCHANGED st
    /\ UNCHANGED <<bvars, xvars>>

\* ConfigManager.set_api_key_for_provider
set_api_key_for_provider(i, provider, api_key) ==
    do_set_key(i, provider, api_key, "set_api_key_for_provider", provider)

\* ConfigManager.remove_api_key_for_provider
remove_api_key_for_provider(i, provider) ==
    do_remove_key(i, provider, "remove_api_key_for_provider", provider)

\* ConfigManager.set_api_key
set_api_key(i, model_name, api_key) ==
    do_set_key(i, _extract_provider_from_model(model_name), api_key,
               "set_api_key", model_name)

\* ConfigManager.remove_api_key
remove_api_key(i, model_name) ==
    do_remove_key(i, _extract_provider_from_model(model_name),
                  "remove_api_key", model_name)

\* ------------------------------------------------------- the batch driver
\* bounds: run_analysis calls and direct analyze_with_model calls on one
\* MultiModelAnalyzer
MaxRuns == 2
MaxDirect == 1

\* gui.AVAILABLE_MODELS.  The source lists 13 ids of three providers; kept
\* here are three ids of two providers: two ids that share a provider, one of
\* them with several slashes, and one id of another provider.
AVAILABLE_MODELS == <<m_a_m, m_a_b_m, m_b_m>>

\* every model id that reaches the analyzer (m_b is not a known model)
ModelUniverse == {AVAILABLE_MODELS[k] : k \in 1..Len(AVAILABLE_MODELS)} \cup {m_b}

\* self.selected_models: None, or the ids the caller asked for
NoSelection == [given |-> FALSE, models |-> {}]
Sel(S) == [given |-> TRUE, models |-> S]
SelectionInputs == {NoSelection, Sel({}), Sel({m_a_b_m, m_b_m}), Sel({m_b_m, m_b})}

\* the files the analyzer's ConfigManager is loaded from: absent, {} and
\* objects with well-typed entries, the key of a provider missing, empty or set
BatchFiles ==
    {AbsentFile, JsonFile([DefaultConfig EXCEPT !.sm = Missing, !.pk = "missing"])}
    \cup {JsonFile([DefaultConfig EXCEPT
                      !.keys = [NoKeys EXCEPT ![p_a] = x, ![p_b] = y]]) :
            x \in {NoneVal, "k1"}, y \in {NoneVal, "", "k2"}}

\* error texts: the entries of self.errors and the Error column
NoError      == [text |-> NoneVal, model |-> <<>>]          \* no entry
EmptyError   == [text |-> "", model |-> <<>>]               \* ""
UnknownError == [text |-> "Unknown error", model |-> <<>>]
\* f"No API key found for model {model_name}"
NoKeyError(model_name) == [text |-> "No API key found for model", model |-> model_name]
\* str(e)
ExcError(text) == [text |-> text, model |-> <<>>]

\* a Finding (models.py); description, recommendation and reference are
\* opaque to the driver and left out
Finding(id, level) == [id |-> id, level |-> level]
Findings3 == <<Finding(1, "Minor"), Finding(2, "Fatal"), Finding(3, "Bogus")>>

\* what LLMOperations does for one model: the constructor raises, the
\* request raises, or the request returns findings and a token count
CallOutcomes ==
    { [kind |-> "ctor_raises", text |-> "bad provider", findings |-> <<>>, tokens |-> 0],
      [kind |-> "raises", text |-> "timeout", findings |-> <<>>, tokens |-> 0],
      [kind |-> "ok", text |-> "", findings |-> <<>>, tokens |-> 5],
      [kind |-> "ok", text |-> "", findings |-> Findings3, tokens |-> 5] }

\* an AnalysisResult, or None
NoResult == [kind |-> "none", findings |-> <<>>, tokens |-> 0]
OkResult(findings, tokens) == [kind |-> "ok", findings |-> findings, tokens |-> tokens]

\* a plausible slip: `if api_key is not None`
truthy_not_none(v) == v # NoneVal

\* `if api_key:` (analyze_models.py lines 85 and 94)
truthy(v) == v \notin {NoneVal, ""}

\* get_available_models_with_keys: `available` after the first k candidates
RECURSIVE available_loop(_, _, _)
available_loop(c, sel, k) ==
    IF k = 0 THEN <<>>
    ELSE LET model == AVAILABLE_MODELS[k]
             prev  == available_loop(c, sel, k - 1)
         IN  IF truthy(get_api_key(c, model))
             THEN IF ~sel.given \/ model \in sel.models
                  THEN Append(prev, model) ELSE prev
             ELSE prev

\* a plausible slip: the candidates are cut down to the caller's subset but
\* not to those with a key
RECURSIVE unfiltered_loop(_, _)
unfiltered_loop(sel, k) ==
    IF k = 0 THEN <<>>
    ELSE IF ~sel.given \/ AVAILABLE_MODELS[k] \in sel.models
         THEN Append(unfiltered_loop(sel, k - 1), AVAILABLE_MODELS[k])
         ELSE unfiltered_loop(sel, k - 1)
get_available_models_unfiltered(c, sel) ==
    unfiltered_loop(sel, Len(AVAILABLE_MODELS))

\* MultiModelAnalyzer.get_available_models_with_keys
get_available_models_with_keys(c, sel) ==
    available_loop(c, sel, Len(AVAILABLE_MODELS))

\* a plausible slip: the try block starts after the client is constructed
analyze_catches_request_only(kind) == kind # "ctor_raises"

\* analyze_with_model, lines 101-129: is the exception caught?
analyze_catches(kind) == TRUE

\* analyze_with_model: the value returned for an outcome that left the try
analyze_result(o) ==
    IF o.kind = "ok" THEN OkResult(o.findings, o.tokens) ELSE NoResult

\* analyze_with_model: self.errors after an outcome
errors_after(errs, model_name, o) ==
    IF o.kind = "ok" THEN errs ELSE [errs EXCEPT ![model_name] = ExcError(o.text)]

\* results[model_name] = result on a dict kept in insertion order
dict_set(d, model_name, result) ==
    IF \E k \in 1..Len(d) : d[k].model = model_name
    THEN [k \in 1..Len(d) |->
            IF d[k].model = model_name THEN [d[k] EXCEPT !.result = result] ELSE d[k]]
    ELSE Append(d, [model |-> model_name, result |-> result])

\* level_priority.get(level, 99) of save_to_html
level_priority(level) ==
    CASE level = "Fatal" -> 0
      [] level = "Major" -> 1
      [] level = "Minor" -> 2
      [] level = "Best Practice" -> 3
      [] level = "Nice To Have" -> 4
      [] OTHER -> 99

\* sorted(findings, key=...): Python's sort is stable
RECURSIVE sorted_findings(_)
sorted_findings(fs) ==
    IF fs = <<>> THEN <<>>
    ELSE LET s == sorted_findings(SubSeq(fs, 1, Len(fs) - 1))
             f == fs[Len(fs)]
             n == Cardinality({i \in 1..Len(s) :
                      level_priority(s[i].level) <= level_priority(f.level)})
         IN  SubSeq(s, 1, n) \o <<f>> \o SubSeq(s, n + 1, Len(s))

\* save_to_html: the report of one model; banner is `if self.errors:`
save_to_html(model_name, findings, errs) ==
    [model  |-> model_name,
     rows   |-> sorted_findings(findings),
     banner |-> \E m \in ModelUniverse : errs[m] # NoError,
     listed |-> {m \in ModelUniverse : errs[m] # NoError}]

\* a plausible slip: a level that is none of the five is counted as the last
level_count_lumped(findings, level) ==
    IF level = "Nice To Have"
    THEN Cardinality({i \in 1..Len(findings) :
            findings[i].level \notin {"Fatal", "Major", "Minor", "Best Practice"}})
    ELSE Cardinality({i \in 1..Len(findings) : findings[i].level = level})

\* save_summary_csv, lines 427-437: level_counts[level] after the loop
level_count(findings, level) ==
    Cardinality({i \in 1..Len(findings) : findings[i].level = level})

\* a plausible slip: the ERROR row is written without the captured text
summary_row_no_text(model_name, result, errs) ==
    IF result.kind = "none"
    THEN [model |-> model_name, status |-> "ERROR", total |-> 0,
          fatal |-> 0, major |-> 0, minor |-> 0, best |-> 0, nice |-> 0,
          tokens |-> 0, error |-> UnknownError]
    ELSE [model |-> model_name, status |-> "SUCCESS",
          total |-> Len(result.findings),
          fatal |-> level_count(result.findings, "Fatal"),
          major |-> level_count(result.findings, "Major"),
          minor |-> level_count(result.findings, "Minor"),
          best  |-> level_count(result.findings, "Best Practice"),
          nice  |-> level_count(result.findings, "Nice To Have"),
          tokens |-> result.tokens, error |-> EmptyError]

\* save_summary_csv, lines 417-454: the row of one model
summary_row(model_name, result, errs) ==
    IF result.kind = "none"
    THEN [model |-> model_name, status |-> "ERROR", total |-> 0,
          fatal |-> 0, major |-> 0, minor |-> 0, best |-> 0, nice |-> 0,
          tokens |-> 0,
          error |-> IF errs[model_name] # NoError
                    THEN errs[model_name] ELSE UnknownError]
    ELSE [model |-> model_name, status |-> "SUCCESS",
          total |-> Len(result.findings),
          fatal |-> level_count(result.findings, "Fatal"),
          major |-> level_count(result.findings, "Major"),
          minor |-> level_count(result.findings, "Minor"),
          best  |-> level_count(result.findings, "Best Practice"),
          nice  |-> level_count(result.findings, "Nice To Have"),
          tokens |-> result.tokens, error |-> EmptyError]

\* MultiModelAnalyzer.save_summary_csv: the rows after the header
save_summary_csv(res, errs) ==
    [k \in 1..Len(res) |-> summary_row(res[k].model, res[k].result, errs)]

NoIO == [clients |-> 0, requests |-> 0]

\* what one analyze_with_model call met, kept for the claims
Met(model_name, kind, text, findings) ==
    [model |-> model_name, kind |-> kind, text |-> text, findings |-> findings]

\* every part of the analyzer but pc, before any call
BRest ==
    /\ errors = [m \in ModelUniverse |-> NoError]
    /\ avail = <<>>
    /\ idx = 1
    /\ results = <<>>
    /\ reports = <<>>
    /\ summary = <<>>
    /\ ended = "none"
    /\ cur = Missing
    /\ callio = NoIO
    /\ outcomes = <<>>
    /\ lastret = [m \in ModelUniverse |-> "never"]
    /\ runs = 0
    /\ directs = 0

\* the analyzer before any call
BIdle == pc = "idle" /\ BRest

\* no analyzer in the process
BAbsent == pc = "none" /\ BRest

\* MultiModelAnalyzer.__init__ has run: both ConfigManagers of the process
\* (the global one and the analyzer's own) are loaded from the same file
BInit ==
    /\ file \in BatchFiles
    /\ clock = 0
    /\ st = [i \in Instances |-> "ok"]
    /\ cfg = [i \in Instances |-> _load_config(file, FALSE)]
    /\ hist = [i \in Instances |-> [p \in ProviderUniverse |-> "<none>"]]
    /\ lastop = NoOp
    /\ selected \in SelectionInputs
    /\ BIdle
    /\ SIdle /\ LAbsent /\ GAbsent /\ MAbsent /\ FAbsent /\ DRest

\* a plausible slip: a report for every result, with findings or without
writes_report_any(result) == result.kind = "ok"

\* run_analysis, line 504: `if result and result.findings:`
writes_report(result) == result.kind = "ok" /\ result.findings # <<>>

\* a plausible slip: a model whose call gave no result is tried again
next_model_retry(i, result) == IF result.kind = "none" THEN i ELSE i + 1

\* run_analysis, line 499: the for loop goes on to the next available model
\* whatever the call returned
next_model(i, result) == i + 1

\* run_analysis, lines 459-497: the available models are computed; with none
\* the call returns {} at once
run_analysis_start ==
    /\ pc = "idle"
    /\ runs < MaxRuns
    /\ runs' = runs + 1
    /\ LET a == get_available_models_with_keys(cfg[2], selected) IN
         /\ avail' = a
         /\ IF a = <<>>
            THEN pc' = "idle" /\ ended' = "empty"
            ELSE pc' = "loop" /\ ended' = "none"
    /\ idx' = 1
    /\ results' = <<>>
    /\ reports' = <<>>
    /\ summary' = <<>>
    /\ outcomes' = <<>>
    /\ UNCHANGED <<selected, errors, cur, callio, lastret, directs>>
    /\ UNCHANGED <<cvars, xvars>>

\* run_analysis, lines 499-500, and analyze_with_model, lines 93-104: the
\* next model is taken; without a key its error is recorded and the loop goes
\* on, with a key the call enters LLMOperations
run_analysis_next ==
    /\ pc = "loop"
    /\ idx <= Len(avail)
    /\ LET model_name == avail[idx] IN
         IF ~truthy(get_api_key(cfg[2], model_name))
         THEN /\ errors' = [errors EXCEPT ![model_name] = NoKeyError(model_name)]
              /\ results' = dict_set(results, model_name, NoResult)
              /\ outcomes' = Append(outcomes,
                     Met(model_name, "nokey", "No API key found for model", <<>>))
              /\ lastret' = [lastret EXCEPT ![model_name] = "absent"]
              /\ idx' = next_model(idx, NoResult)
              /\ cur' = model_name
              /\ UNCHANGED pc
         ELSE /\ pc' = "call"
              /\ cur' = model_name
              /\ UNCHANGED <<errors, results, outcomes, lastret, idx>>
    /\ callio' = NoIO
    /\ UNCHANGED <<selected, avail, reports, summary, ended, runs, directs>>
    /\ UNCHANGED <<cvars, xvars>>

\* analyze_with_model, lines 104-129, and run_analysis, lines 501-507:
\* LLMOperations returns or raises; the result is stored and, when it has
\* findings, the HTML report of the model is written
run_analysis_return ==
    /\ pc = "call"
    /\ \E o \in CallOutcomes :
         /\ callio' = [clients  |-> IF o.kind = "ctor_raises" THEN 0 ELSE 1,
                       requests |-> IF o.kind = "ctor_raises" THEN 0 ELSE 1]
         /\ outcomes' = Append(outcomes, Met(cur, o.kind, o.text, o.findings))
         /\ IF o.kind # "ok" /\ ~analyze_catches(o.kind)
            THEN \* the exception leaves analyze_with_model and run_analysis
                 /\ pc' = "idle"
                 /\ ended' = "aborted"
                 /\ UNCHANGED <<errors, results, reports, lastret, idx>>
            ELSE LET result == analyze_result(o)
                     errs   == errors_after(errors, cur, o)
                 IN  /\ errors' = errs
                     /\ results' = dict_set(results, cur, result)
                     /\ reports' =
                          IF writes_report(result)
                          THEN Append(reports,
                                      save_to_html(cur, result.findings, errs))
                          ELSE reports
                     /\ lastret' = [lastret EXCEPT ![cur] =
                                      IF result.kind = "ok" THEN "result" ELSE "absent"]
                     /\ idx' = next_model(idx, result)
                     /\ pc' = "loop"
                     /\ UNCHANGED ended
    /\ UNCHANGED <<selected, avail, summary, cur, runs, directs>>
    /\ UNCHANGED <<cvars, xvars>>

\* run_analysis, lines 509-512: after the last model the summary is written
run_analysis_finish ==
    /\ pc = "loop"
    /\ idx > Len(avail)
    /\ summary' = save_summary_csv(results, errors)
    /\ pc' = "idle"
    /\ ended' = "summary"
    /\ UNCHANGED <<selected, errors, avail, idx, results, reports, cur, callio,
                   outcomes, lastret, runs, directs>>
    /\ UNCHANGED <<cvars, xvars>>

\* analyze_with_model called on its own, lines 93-104
analyze_with_model_call(model_name) ==
    /\ pc = "idle"
    /\ directs < MaxDirect
    /\ directs' = directs + 1
    /\ callio' = NoIO
    /\ IF ~truthy(get_api_key(cfg[2], model_name))
       THEN /\ errors' = [errors EXCEPT ![model_name] = NoKeyError(model_name)]
            /\ lastret' = [lastret EXCEPT ![model_name] = "absent"]
            /\ cur' = model_name
            /\ UNCHANGED pc
       ELSE /\ pc' = "dcall"
            /\ cur' = model_name
            /\ UNCHANGED <<errors, lastret>>
    /\ UNCHANGED <<selected, avail, idx, results, reports, summary, ended,
                   outcomes, runs>>
    /\ UNCHANGED <<cvars, xvars>>

\* analyze_with_model called on its own, lines 104-129
analyze_with_model_return ==
    /\ pc = "dcall"
    /\ \E o \in CallOutcomes :
         /\ callio' = [clients  |-> IF o.kind = "ctor_raises" THEN 0 ELSE 1,
                       requests |-> IF o.kind = "ctor_raises" THEN 0 ELSE 1]
         /\ IF o.kind # "ok" /\ ~analyze_catches(o.kind)
            THEN UNCHANGED <<errors, lastret>>
            ELSE /\ errors' = errors_after(errors, cur, o)
                 /\ lastret' = [lastret EXCEPT ![cur] =
                                  IF o.kind = "ok" THEN "result" ELSE "absent"]
    /\ pc' = "idle"
    /\ UNCHANGED <<selected, avail, idx, results, reports, summary, ended, cur,
                   outcomes, runs, directs>>
    /\ UNCHANGED <<cvars, xvars>>

\* ------------------------------------------------------------ the sorters
MaxFindings == 4

\* the levels a model can answer with: the five above and one that is none
LevelInputs == {ALL_LEVELS[k] : k \in 1..Len(ALL_LEVELS)} \cup {"Bogus"}

\* the lists of findings handed to the sorters; the id of a finding is its
\* position in the list
FindingLists ==
    UNION {{[k \in 1..n |-> Finding(k, lv[k])] : lv \in [1..n -> LevelInputs]} :
             n \in 0..MaxFindings}

\* FindingItem.from_finding: level kept; description, location and
\* recommendation are opaque texts and the id stands for them
from_finding(finding) == [level |-> finding.level, description |-> finding.id]

\* a plausible slip: an unknown level sorts first
self_level_priority_unknown_first(level) ==
    CASE level = ALL_LEVELS[1] -> 0
      [] level = ALL_LEVELS[2] -> 1
      [] level = ALL_LEVELS[3] -> 2
      [] level = ALL_LEVELS[4] -> 3
      [] level = ALL_LEVELS[5] -> 4
      [] OTHER -> -1

\* self.level_priority.get(level, 99) of SchematicLLMCheckerDialog, keyed by
\* the FindingLevel constants
self_level_priority(level) ==
    CASE level = ALL_LEVELS[1] -> 0
      [] level = ALL_LEVELS[2] -> 1
      [] level = ALL_LEVELS[3] -> 2
      [] level = ALL_LEVELS[4] -> 3
      [] level = ALL_LEVELS[5] -> 4
      [] OTHER -> 99

\* SchematicLLMCheckerDialog.sort_findings: sorted() is stable, an item goes
\* behind the items whose priority is not greater
RECURSIVE sort_findings(_)
sort_findings(findings_list) ==
    IF findings_list = <<>> THEN <<>>
    ELSE LET n == Len(findings_list)
             s == sort_findings(SubSeq(findings_list, 1, n - 1))
             f == findings_list[n]
             k == Cardinality({i \in 1..Len(s) :
                      self_level_priority(s[i].level)
                          <= self_level_priority(f.level)})
         IN  SubSeq(s, 1, k) \o <<f>> \o SubSeq(s, k + 1, Len(s))

\* _analysis_complete, lines 391-394: the findings become FindingItems and
\* are sorted for the list
analysis_complete_sort ==
    /\ "gui" \notin sort_done
    /\ gui_sorted' = sort_findings([k \in 1..Len(unsorted) |->
                                        from_finding(unsorted[k])])
    /\ sort_done' = sort_done \cup {"gui"}
    /\ UNCHANGED <<unsorted, html_sorted>>
    /\ UNCHANGED <<cvars, bvars, lvars, gvars, dvars, yvars>>

\* save_to_html, lines 183-193: the findings are sorted for the table
save_to_html_sort ==
    /\ "html" \notin sort_done
    /\ html_sorted' = save_to_html(m_a_m, unsorted, errors).rows
    /\ sort_done' = sort_done \cup {"html"}
    /\ UNCHANGED <<unsorted, gui_sorted>>
    /\ UNCHANGED <<cvars, bvars, lvars, gvars, dvars, yvars>>

vars == <<file, clock, st, cfg, hist, lastop,
          selected, errors, pc, avail, idx, results, reports, summary, ended,
          cur, callio, outcomes, lastret, runs, directs,
          unsorted, gui_sorted, html_sorted, sort_done,
          lmodel, lcall, lpc, requests, lret, lcalls,
          dlg, run_button, worker, uiq, shown, core_io, lastrun, clicks,
          args, mainpc, exit_code,
          csv_findings, csv_file, csv_rows, csv_reader, csv_pc,
          self_findings, filtered_findings, all_checkbox, checkboxes, findings_by,
          exported, handled, events>>

\* the plugin process: no ConfigManager constructed yet, no analyzer
Init ==
    /\ CInit /\ selected = NoSelection /\ BIdle
    /\ SIdle /\ LAbsent /\ GAbsent /\ MAbsent /\ FAbsent /\ DRest

\* one ConfigManager, the global config_manager of config.py
Next ==
    \/ Construct(1)
    \/ \E m \in SelectInputs : set_selected_model(1, m)
    \/ \E p \in ProviderInputs, k \in KeyInputs : set_api_key_for_provider(1, p, k)
    \/ \E p \in ProviderInputs : remove_api_key_for_provider(1, p)
    \/ \E m \in ModelInputs, k \in KeyInputs : set_api_key(1, m, k)
    \/ \E m \in ModelInputs : remove_api_key(1, m)

Spec == Init /\ [][Next]_vars

\* several ConfigManagers on one file: the global config_manager (1) stores a
\* key, the analyzer's own ConfigManager (2) mutates, and a third one is
\* constructed at any time
NextTwo ==
    \/ \E i \in Instances : Construct(i)
    \/ set_api_key_for_provider(1, p_a, "k1")
    \/ set_selected_model(2, m_a_n)
    \/ set_api_key_for_provider(2, p_b, "k2")
    \/ remove_api_key_for_provider(2, p_b)
    \/ set_api_key(2, m_b, "k1")
    \/ remove_api_key(2, m_b)

SpecTwo == Init /\ [][NextTwo]_vars

\* the batch script: one MultiModelAnalyzer
NextBatch ==
    \/ run_analysis_start
    \/ run_analysis_next
    \/ run_analysis_return
    \/ run_analysis_finish
    \/ \E m \in ModelUniverse : analyze_with_model_call(m)
    \/ analyze_with_model_return

SpecBatch == BInit /\ [][NextBatch]_vars

\* ------------------------------------------------------------- the export
\* what export_netlist_and_schematic finds: whether KiCad answers, whether a
\* PCB document is open, its project, the kicad-cli path, how kicad-cli ends,
\* and the netlist it wrote
Env(kicad, docs, project, binary, cli, netlist) ==
    [kicad |-> kicad, docs |-> docs, project |-> project, binary |-> binary,
     cli |-> cli, netlist |-> netlist]

ExportEnvs ==
    { Env("ok", TRUE, "ok", TRUE, "ok", <<"N">>),
      Env("ok", TRUE, "ok", TRUE, "ok", <<>>),                \* empty .net file
      Env("raises", TRUE, "ok", TRUE, "ok", <<"N">>),         \* KiCad() raises
      Env("ok", FALSE, "ok", TRUE, "ok", <<"N">>),            \* no PCB document
      Env("ok", TRUE, "none", TRUE, "ok", <<"N">>),           \* project is None
      Env("ok", TRUE, "nopath", TRUE, "ok", <<"N">>),         \* project.path ''
      Env("ok", TRUE, "ok", FALSE, "ok", <<"N">>),            \* no kicad-cli path
      Env("ok", TRUE, "ok", TRUE, "CalledProcessError", <<"N">>),
      Env("ok", TRUE, "ok", TRUE, "OSError", <<"N">>) }       \* path not runnable

Exported(kind, netlist, schematic, project_path) ==
    [kind |-> kind, netlist |-> netlist, schematic |-> schematic,
     project_path |-> project_path]

\* `if netlist:` and `if not schematic:` on a text or None
text_truthy(t) == t \notin {NoneText, <<>>}

\* kicad_operations.export_netlist_and_schematic
export_netlist_and_schematic(env) ==
    IF env.kicad = "raises" THEN Exported("raised", NoneText, NoneText, NoneVal)
    ELSE IF ~env.docs THEN Exported("ret", NoneText, NoneText, NoneVal)
    ELSE IF env.project = "none"                   \* print(project.path)
         THEN Exported("raised", NoneText, NoneText, NoneVal)
    ELSE IF env.project = "nopath" THEN Exported("ret", NoneText, NoneText, NoneVal)
    ELSE IF ~env.binary THEN Exported("ret", NoneText, NoneText, NoneVal)
    ELSE IF env.cli = "CalledProcessError"
         THEN Exported("ret", NoneText, NoneText, NoneVal)
    ELSE IF env.cli # "ok" THEN Exported("raised", NoneText, NoneText, NoneVal)
    ELSE Exported("ret", env.netlist, <<"S">>, "project")

\* kicad_operations.export_netlist
export_netlist(env) ==
    LET e == export_netlist_and_schematic(env) IN
    [kind |-> e.kind, netlist |-> e.netlist, project_path |-> e.project_path]

\* a plausible slip: the netlist is analysed whatever the export gave
run_unguarded(model_name, api_key, o, env) ==
    LET e == export_netlist(env) IN
    IF o.kind = "ctor_raises"
    THEN Ran(RunRet("raised", o.text, TRUE, <<>>, NoneVal, TokenUsage(0)), 0, 0, "none")
    ELSE IF e.kind = "raised"
    THEN Ran(RunRet("raised", "export", TRUE, <<>>, NoneVal, TokenUsage(0)), 1, 0, "raised")
    ELSE IF o.kind = "raises"
    THEN Ran(RunRet("raised", o.text, TRUE, <<>>, NoneVal, TokenUsage(0)), 1, 1,
             IF text_truthy(e.netlist) THEN "netlist" ELSE "absent")
    ELSE Ran(RunRet("ret", "", FALSE, o.findings, e.project_path, TokenUsage(o.tokens)),
             1, 1, IF text_truthy(e.netlist) THEN "netlist" ELSE "absent")

\* core.run: the LLMOperations object is made first, then the netlist is
\* exported, and only a netlist that is there and not empty is analysed
run(model_name, api_key, o, env) ==
    LET e == export_netlist(env) IN
    IF o.kind = "ctor_raises"
    THEN Ran(RunRet("raised", o.text, TRUE, <<>>, NoneVal, TokenUsage(0)), 0, 0, "none")
    ELSE IF e.kind = "raised"
    THEN Ran(RunRet("raised", "export", TRUE, <<>>, NoneVal, TokenUsage(0)), 1, 0, "raised")
    ELSE IF text_truthy(e.netlist)
    THEN IF o.kind = "raises"
         THEN Ran(RunRet("raised", o.text, TRUE, <<>>, NoneVal, TokenUsage(0)),
                  1, 1, "netlist")
         ELSE Ran(RunRet("ret", "", FALSE, o.findings, e.project_path,
                         TokenUsage(o.tokens)), 1, 1, "netlist")
    ELSE Ran(RunRet("ret", "", TRUE, <<>>, NoneVal, TokenUsage(0)), 1, 0, "absent")

\* ------------------------------------------------------ the LLM operations
\* a "google/..." model id and the prefix analyze_netlist looks for
m_g_m == <<"g", "/", "m">>
GooglePrefix == <<"g", "/">>

\* str.startswith
startswith(str, prefix) ==
    Len(str) >= Len(prefix) /\ SubSeq(str, 1, Len(prefix)) = prefix

\* texts are sequences of pieces; the template is its instructions and the
\* one replacement field it holds (the netlist field is outside the string)
USER_PROMPT_TEMPLATE == <<"instructions", "{schematic_content}">>

\* str.format(schematic_content=..., netlist_content=...): every field of
\* the template is replaced by the argument of its name
RECURSIVE format(_, _, _)
format(template, schematic_content, netlist_content) ==
    IF template = <<>> THEN <<>>
    ELSE LET h == Head(template)
             r == format(Tail(template), schematic_content, netlist_content)
         IN  IF h = "{schematic_content}" THEN schematic_content \o r
             ELSE IF h = "{netlist_content}" THEN netlist_content \o r
             ELSE <<h>> \o r

\* the user message: a plain string, or a list of text blocks of which some
\* carry cache_control
Block(text, cache) == [text |-> text, cache |-> cache]
Messages(shape, blocks) == [shape |-> shape, blocks |-> blocks]

\* analyze_netlist, lines 48-71: the messages it builds
netlist_messages(model_name, netlist) ==
    IF startswith(model_name, GooglePrefix)
    THEN Messages("string", <<Block(USER_PROMPT_TEMPLATE \o netlist, FALSE)>>)
    ELSE Messages("list", <<Block(USER_PROMPT_TEMPLATE, FALSE),
                            Block(netlist, TRUE)>>)

\* a plausible slip: only None falls back, an empty schematic is formatted
falls_back_none_only(schematic) == schematic = NoneText

\* analyze_schematic_and_netlist, line 108: `if not schematic:`
falls_back(schematic) == ~text_truthy(schematic)

\* analyze_schematic_and_netlist, lines 108-138: the messages it builds, its
\* own or those of the analyze_netlist call it returns
schematic_messages(model_name, netlist, schematic) ==
    IF falls_back(schematic) THEN netlist_messages(model_name, netlist)
    ELSE LET formatted_prompt == format(USER_PROMPT_TEMPLATE, schematic, netlist)
         IN  IF startswith(model_name, GooglePrefix)
             THEN Messages("string", <<Block(formatted_prompt, FALSE)>>)
             ELSE Messages("list", <<Block(formatted_prompt, TRUE)>>)

\* what create() does with a request
CreateOutcomes == {"ok", "raises"}

\* a plausible slip: a failed request is swallowed and a result returned
call_end_swallow(o) == "result"

\* lines 73-98 and 140-165: create() is not inside a try, so its exception
\* leaves the method; otherwise an AnalysisResult is returned
call_end(o) == IF o = "ok" THEN "result" ELSE "raised"

NetlistInputs   == {<<>>, <<"N">>, <<"N", "{schematic_content}">>}
SchematicInputs == {NoneText, <<>>, <<"S">>}

\* an LLMOperations object has been constructed for a model
LInit ==
    /\ CInit /\ file = AbsentFile
    /\ selected = NoSelection /\ BIdle
    /\ SIdle /\ GAbsent /\ MAbsent /\ FAbsent /\ DRest
    /\ lmodel \in {m_g_m, m_a_m}
    /\ lcall = NoCall
    /\ lpc = "idle"
    /\ requests = <<>>
    /\ lret = "none"
    /\ lcalls = 0

\* analyze_netlist up to its create() call
analyze_netlist(netlist) ==
    /\ lpc = "idle"
    /\ lcalls < MaxCalls
    /\ lcalls' = lcalls + 1
    /\ lcall' = [method |-> "analyze_netlist", netlist |-> netlist,
                 schematic |-> NoneText, outcome |-> "pending"]
    /\ requests' = <<netlist_messages(lmodel, netlist)>>
    /\ lret' = "none"
    /\ lpc' = "request"
    /\ UNCHANGED lmodel
    /\ UNCHANGED <<cvars, bvars, svars, gvars, dvars, yvars>>

\* analyze_schematic_and_netlist up to the create() call, its own or that of
\* the analyze_netlist call it returns
analyze_schematic_and_netlist(netlist, schematic) ==
    /\ lpc = "idle"
    /\ lcalls < MaxCalls
    /\ lcalls' = lcalls + 1
    /\ lcall' = [method |-> "analyze_schematic_and_netlist", netlist |-> netlist,
                 schematic |-> schematic, outcome |-> "pending"]
    /\ requests' = <<schematic_messages(lmodel, netlist, schematic)>>
    /\ lret' = "none"
    /\ lpc' = "request"
    /\ UNCHANGED lmodel
    /\ UNCHANGED <<cvars, bvars, svars, gvars, dvars, yvars>>

\* create() returns or raises, and the method ends
create_return ==
    /\ lpc = "request"
    /\ \E o \in CreateOutcomes :
         /\ lcall' = [lcall EXCEPT !.outcome = o]
         /\ lret' = call_end(o)
    /\ lpc' = "idle"
    /\ UNCHANGED <<lmodel, requests, lcalls>>
    /\ UNCHANGED <<cvars, bvars, svars, gvars, dvars, yvars>>

NextLLM ==
    \/ \E n \in NetlistInputs : analyze_netlist(n)
    \/ \E n \in NetlistInputs, sch \in SchematicInputs :
          analyze_schematic_and_netlist(n, sch)
    \/ create_return

SpecLLM == LInit /\ [][NextLLM]_vars

\* -------------------------------------------------------------- the dialog
\* a message box: text, the exception text or "", the model id it names or
\* <<>>, and the title
Msg(text, detail, model, title) ==
    [text |-> text, detail |-> detail, model |-> model, title |-> title]

NoMsg == Msg("", "", <<>>, "")

\* a plausible slip: the message does not say which model lacks its key
NoKeyMsg_unnamed(selected_model) ==
    Msg("No API key configured for", "", <<>>, "Configuration Error")

\* f"No API key configured for {selected_model}. Please configure it in Settings."
NoKeyMsg(selected_model) ==
    Msg("No API key configured for", "", selected_model, "Configuration Error")

\* f"Error during analysis: {str(e)}"
AnalysisErrorMsg(e) == Msg("Error during analysis", e, <<>>, "Analysis Error")

NoFindingsMsg == Msg("No findings from analysis", "", <<>>, "Analysis Complete")

\* wx.CallAfter(fn, ...) by the worker of Run click w
Callback(fn, w, msg, ret) == [fn |-> fn, by |-> w, msg |-> msg, ret |-> ret]

\* the configuration files the dialog's config_manager is loaded from
GuiFiles ==
    { JsonFile([DefaultConfig EXCEPT !.sm = Missing, !.pk = "missing"]),
      JsonFile([DefaultConfig EXCEPT !.pk = "null"]) }
    \cup {JsonFile([DefaultConfig EXCEPT !.sm = m_a_m,
                       !.keys = [NoKeys EXCEPT ![p_a] = x]]) :
            x \in {NoneVal, "", "k1"}}

\* show_dialog has constructed and shown the dialog; config_manager is the
\* ConfigManager 1 of the process, and there is no analyzer
GInit ==
    /\ file \in GuiFiles
    /\ clock = 0
    /\ st = [i \in Instances |-> IF i = 1 THEN "ok" ELSE "unborn"]
    /\ cfg = [i \in Instances |->
                IF i = 1 THEN _load_config(file, FALSE) ELSE DefaultConfig]
    /\ hist = [i \in Instances |-> [p \in ProviderUniverse |-> "<none>"]]
    /\ lastop = NoOp
    /\ selected = NoSelection
    /\ BAbsent /\ SIdle /\ LAbsent /\ MAbsent /\ FAbsent /\ DRest
    /\ dlg = "open"
    /\ GRest

\* a plausible slip: the label changes but the button stays enabled
on_run_button_label_only(b) == [b EXCEPT !.label = "Running..."]

\* on_run, lines 341-342
on_run_button(b) == [enabled |-> FALSE, label |-> "Running..."]

\* on_run: the user clicks Run, which an enabled button only lets them do
on_run ==
    /\ dlg = "open"
    /\ run_button.enabled
    /\ clicks < MaxClicks
    /\ clicks' = clicks + 1
    /\ run_button' = on_run_button(run_button)
    /\ worker' = [worker EXCEPT ![clicks + 1].pc = "begin"]
    /\ UNCHANGED <<dlg, uiq, shown, core_io, lastrun>>
    /\ UNCHANGED <<cvars, bvars, svars, lvars, dvars, yvars>>

\* _run_analysis_thread, lines 351-362: the model and its key are read; a
\* getter that raises goes to the except clause, a missing key to _show_error
_run_analysis_thread_begin(w) ==
    /\ worker[w].pc = "begin"
    /\ LET selected_model == get_selected_model(cfg[1])
           raised == \/ selected_model = RaisesSeq
                     \/ get_api_key(cfg[1], selected_model) = Raises
       IN  IF raised
           THEN /\ uiq' = Append(uiq, Callback("_show_error", w,
                                     AnalysisErrorMsg("AttributeError"), NoRet))
                /\ worker' = [worker EXCEPT ![w].pc = "finally"]
           ELSE LET api_key == get_api_key(cfg[1], selected_model) IN
                IF ~truthy(api_key)
                THEN /\ uiq' = Append(uiq, Callback("_show_error", w,
                                          NoKeyMsg(selected_model), NoRet))
                     /\ worker' = [worker EXCEPT ![w] =
                                     [pc |-> "finally", model |-> selected_model,
                                      key |-> api_key]]
                ELSE /\ uiq' = uiq
                     /\ worker' = [worker EXCEPT ![w] =
                                     [pc |-> "blocking", model |-> selected_model,
                                      key |-> api_key]]
    /\ UNCHANGED <<dlg, run_button, shown, core_io, lastrun, clicks>>
    /\ UNCHANGED <<cvars, bvars, svars, lvars, dvars, yvars>>

\* _run_analysis_thread, lines 364-375: core.run returns or raises and the
\* outcome is posted to the main thread
_run_analysis_thread_return(w) ==
    /\ worker[w].pc = "blocking"
    /\ \E o \in CallOutcomes, env \in ExportEnvs :
         LET r == run(worker[w].model, worker[w].key, o, env) IN
         /\ core_io' = [clients  |-> core_io.clients + r.clients,
                        requests |-> core_io.requests + r.requests]
         /\ lastrun' = LastRun(r, o.kind, env)
         /\ uiq' = Append(uiq,
                IF r.ret.kind = "raised"
                THEN Callback("_show_error", w, AnalysisErrorMsg(r.ret.text), NoRet)
                ELSE Callback("_analysis_complete", w, NoMsg, r.ret))
    /\ worker' = [worker EXCEPT ![w].pc = "finally"]
    /\ UNCHANGED <<dlg, run_button, shown, clicks>>
    /\ UNCHANGED <<cvars, bvars, svars, lvars, dvars, yvars>>

\* a plausible slip: the reset is not in a finally clause, so a thread that
\* ends early posts nothing
post_reset_skipped(q, w) == q

\* _run_analysis_thread, line 377: wx.CallAfter(self._reset_run_button)
post_reset(q, w) == Append(q, Callback("_reset_run_button", w, NoMsg, NoRet))

\* _run_analysis_thread, lines 376-377: the finally clause posts the reset
\* of the Run button, and the thread ends
_run_analysis_thread_finally(w) ==
    /\ worker[w].pc = "finally"
    /\ uiq' = post_reset(uiq, w)
    /\ worker' = [worker EXCEPT ![w].pc = "done"]
    /\ UNCHANGED <<dlg, run_button, shown, core_io, lastrun, clicks>>
    /\ UNCHANGED <<cvars, bvars, svars, lvars, dvars, yvars>>

\* the levels whose checkbox is checked
selected_levels(boxes) == {l \in DOMAIN boxes : boxes[l]}

\* [f for f in self.findings if f.level in selected_levels]
filter_levels(fs, levels) == SelectSeq(fs, LAMBDA f : f.level \in levels)

\* apply_current_filters: self.filtered_findings afterwards
apply_current_filters(fs, all, boxes) ==
    IF all THEN sort_findings(fs)
    ELSE IF selected_levels(boxes) # {}
    THEN sort_findings(filter_levels(fs, selected_levels(boxes)))
    ELSE <<>>

\* _analysis_complete, lines 390-394 and 398: self.findings afterwards
analysis_complete_findings(ret) ==
    IF ~ret.absent /\ ret.findings # <<>>
    THEN sort_findings([k \in 1..Len(ret.findings) |-> from_finding(ret.findings[k])])
    ELSE <<>>

\* _analysis_complete, lines 395-396 and 399: self.filtered_findings
\* afterwards, fs being the new self.findings
analysis_complete_filtered(fs, all, boxes) ==
    IF fs # <<>> THEN apply_current_filters(fs, all, boxes) ELSE <<>>

\* the main thread runs the oldest posted callback: _show_error shows its
\* box, _analysis_complete keeps the findings and shows them, or shows a box
\* when there are none, _reset_run_button enables the Run button
MainLoop ==
    /\ dlg = "open"
    /\ uiq # <<>>
    /\ LET cb == Head(uiq) IN
         /\ shown' = IF cb.fn = "_show_error" THEN Append(shown, cb.msg)
                     ELSE IF cb.fn = "_analysis_complete"
                             /\ (cb.ret.absent \/ cb.ret.findings = <<>>)
                          THEN Append(shown, NoFindingsMsg)
                     ELSE shown
         /\ run_button' = IF cb.fn = "_reset_run_button" THEN RunButton
                          ELSE run_button
         /\ self_findings' = IF cb.fn = "_analysis_complete"
                             THEN analysis_complete_findings(cb.ret)
                             ELSE self_findings
         /\ filtered_findings' =
                IF cb.fn = "_analysis_complete"
                THEN analysis_complete_filtered(self_findings', all_checkbox,
                                                checkboxes)
                ELSE filtered_findings
         /\ findings_by' = IF cb.fn = "_analysis_complete" THEN worker[cb.by].model
                           ELSE findings_by
         /\ handled' = Append(handled, [fn |-> cb.fn, by |-> cb.by])
    /\ uiq' = Tail(uiq)
    /\ UNCHANGED <<dlg, worker, core_io, lastrun, clicks>>
    /\ UNCHANGED <<all_checkbox, checkboxes, exported, events>>
    /\ UNCHANGED <<cvars, bvars, svars, lvars, yvars>>

NextGui ==
    \/ on_run
    \/ \E w \in 1..MaxClicks : _run_analysis_thread_begin(w)
    \/ \E w \in 1..MaxClicks : _run_analysis_thread_return(w)
    \/ \E w \in 1..MaxClicks : _run_analysis_thread_finally(w)
    \/ MainLoop

SpecGui == GInit /\ [][NextGui]_vars

\* the worker threads run, a call of core.run returns, and the main thread
\* runs the callbacks posted to it
SpecGuiFair ==
    /\ GInit /\ [][NextGui]_vars
    /\ WF_vars(\E w \in 1..MaxClicks : _run_analysis_thread_begin(w))
    /\ WF_vars(\E w \in 1..MaxClicks : _run_analysis_thread_return(w))
    /\ WF_vars(\E w \in 1..MaxClicks : _run_analysis_thread_finally(w))
    /\ WF_vars(MainLoop)

\* ------------------------------------------- the filters and the export
\* bound: checkbox, Configuration and export events in one behaviour
MaxEvents == 2

\* the user clicks "All": the box changes and on_all_checkbox runs
on_all_checkbox ==
    /\ dlg = "open"
    /\ events < MaxEvents
    /\ events' = events + 1
    /\ all_checkbox' = ~all_checkbox
    /\ IF all_checkbox'
       THEN /\ checkboxes' = [l \in DOMAIN checkboxes |-> FALSE]
            /\ filtered_findings' = sort_findings(self_findings)
       ELSE /\ checkboxes' = checkboxes
            /\ filtered_findings' = <<>>
    /\ UNCHANGED <<self_findings, findings_by, exported, handled>>
    /\ UNCHANGED <<cvars, bvars, svars, lvars, gvars, yvars>>

\* the user clicks the checkbox of a level: the box changes and
\* on_level_checkbox runs
on_level_checkbox(level) ==
    /\ dlg = "open"
    /\ events < MaxEvents
    /\ events' = events + 1
    /\ LET boxes == [checkboxes EXCEPT ![level] = ~checkboxes[level]] IN
         /\ checkboxes' = boxes
         /\ all_checkbox' = IF selected_levels(boxes) # {} THEN FALSE
                            ELSE all_checkbox
         /\ filtered_findings' =
                IF selected_levels(boxes) # {}
                THEN sort_findings(filter_levels(self_findings, selected_levels(boxes)))
                ELSE <<>>
    /\ UNCHANGED <<self_findings, findings_by, exported, handled>>
    /\ UNCHANGED <<cvars, bvars, svars, lvars, gvars, yvars>>

\* the models and the key texts the user enters in the Configuration dialog
ConfigModels == {m_a_m, m_b_m}
ConfigKeys   == {"", "k1"}

\* on_configuration: the Configuration dialog is opened (its __init__ reads
\* the selected model and its key), the user picks a model, enters a key
\* text and presses Save: ConfigurationDialog.on_save stores the model, then
\* stores the key or removes it when the text is empty
ConfigurationDialog_on_save(new_model, api_key) ==
    /\ dlg = "open"
    /\ st[1] = "ok"
    /\ events < MaxEvents
    /\ get_selected_model(cfg[1]) # RaisesSeq
    /\ get_api_key(cfg[1], get_selected_model(cfg[1])) # Raises
    /\ clock + 2 <= MaxClock
    /\ events' = events + 1
    /\ \E w1, w2 \in WriteOutcomes :
         LET provider == _extract_provider_from_model(new_model)
             c1 == save_config([cfg[1] EXCEPT !.sm = new_model], clock + 1)
             f1 == save_file(file, c1, w1)
         IN  IF truthy(api_key)
             THEN LET c2 == save_config(cfg_set_key(c1, provider, api_key),
                                        clock + 2) IN
                  /\ cfg' = [cfg EXCEPT ![1] = c2]
                  /\ file' = save_file(f1, c2, w2)
                  /\ clock' = clock + 2
                  /\ hist' = [hist EXCEPT ![1][provider] = api_key]
                  /\ lastop' = Op("set_api_key", 1, save_raises(w2), w2,
                                  new_model, api_key)
             ELSE IF has_key(c1, provider)
             THEN LET c2 == save_config(cfg_remove_key(c1, provider),
                                        clock + 2) IN
                  /\ cfg' = [cfg EXCEPT ![1] = c2]
                  /\ file' = save_file(f1, c2, w2)
                  /\ clock' = clock + 2
                  /\ hist' = [hist EXCEPT ![1][provider] =
                                 Removed(hist[1][provider])]
                  /\ lastop' = Op("remove_api_key", 1, save_raises(w2), w2,
                                  new_model, NoneVal)
             ELSE /\ cfg' = [cfg EXCEPT ![1] = c1]
                  /\ file' = f1
                  /\ clock' = clock + 1
                  /\ hist' = [hist EXCEPT ![1][provider] =
                                 Removed(hist[1][provider])]
                  /\ lastop' = Op("remove_api_key", 1, FALSE, "none",
                                  new_model, NoneVal)
    /\ UNCHANGED st
    /\ UNCHANGED <<self_findings, filtered_findings, all_checkbox, checkboxes,
                   findings_by, exported, handled>>
    /\ UNCHANGED <<bvars, svars, lvars, gvars, yvars>>

NoDataMsg == Msg("No findings to save", "", <<>>, "No Data")
ExportCompleteMsg == Msg("Findings saved", "", <<>>, "Export Complete")
ExportErrorMsg == Msg("Error saving file", "", <<>>, "Export Error")

\* _export_to_html: the report names the model the configuration selects
\* when the report is written, and has the rows the list shows
_export_to_html(selected_model, rows) == [model |-> selected_model, rows |-> rows]

\* on_save_findings: nothing to save, or the file dialog is cancelled, or the
\* report is written, or writing it raises
on_save_findings ==
    /\ dlg = "open"
    /\ events < MaxEvents
    /\ events' = events + 1
    /\ IF filtered_findings = <<>>
       THEN /\ shown' = Append(shown, NoDataMsg)
            /\ exported' = exported
       ELSE \E choice \in {"cancel", "ok", "error"} :
              IF choice = "cancel"
              THEN UNCHANGED <<shown, exported>>
              ELSE IF choice = "error" \/ get_selected_model(cfg[1]) = RaisesSeq
              THEN /\ shown' = Append(shown, ExportErrorMsg)
                   /\ exported' = exported
              ELSE /\ shown' = Append(shown, ExportCompleteMsg)
                   /\ exported' = _export_to_html(get_selected_model(cfg[1]),
                                                  filtered_findings)
    /\ UNCHANGED <<self_findings, filtered_findings, all_checkbox, checkboxes,
                   findings_by, handled>>
    /\ UNCHANGED <<dlg, run_button, worker, uiq, core_io, lastrun, clicks>>
    /\ UNCHANGED <<cvars, bvars, svars, lvars, yvars>>

\* the dialog with its filters, the Configuration dialog and the export
NextDlg ==
    \/ on_run
    \/ \E w \in 1..MaxClicks : _run_analysis_thread_begin(w)
    \/ \E w \in 1..MaxClicks : _run_analysis_thread_return(w)
    \/ \E w \in 1..MaxClicks : _run_analysis_thread_finally(w)
    \/ MainLoop
    \/ on_all_checkbox
    \/ \E k \in 1..Len(ALL_LEVELS) : on_level_checkbox(ALL_LEVELS[k])
    \/ \E m \in ConfigModels, k \in ConfigKeys : ConfigurationDialog_on_save(m, k)
    \/ on_save_findings

SpecDlg == GInit /\ [][NextDlg]_vars

\* --------------------------------------------------------- the batch script
\* str.strip(): the text without its leading and trailing blanks
RECURSIVE strip(_)
strip(s) ==
    IF s # <<>> /\ Head(s) = " " THEN strip(Tail(s))
    ELSE IF s # <<>> /\ s[Len(s)] = " " THEN strip(SubSeq(s, 1, Len(s) - 1))
    ELSE s

\* the texts given to --models: left out, "", "a/m", "a/b/m, b/m", "a/m,b"
\* (b is not a known model) and "b/m," (the last entry is empty)
ModelsArgs ==
    { NoneText, <<>>, m_a_m, m_a_b_m \o <<",", " ">> \o m_b_m,
      m_a_m \o <<",">> \o m_b, m_b_m \o <<",">> }

\* the command lines argparse accepts (--netlist is always there)
ArgInputs ==
    { Args(l, n, sc, m) : l \in BOOLEAN, n \in {"exists", "missing"},
                          sc \in {"none", "exists", "missing"}, m \in ModelsArgs }

\* main, line 562: [m.strip() for m in args.models.split(",")]
selected_models(models) ==
    LET parts == split(models, ",") IN [k \in 1..Len(parts) |-> strip(parts[k])]

\* a plausible slip: the entries are not validated
invalid_models_unchecked(sel) == <<>>

\* main, line 564: [m for m in selected_models if m not in AVAILABLE_MODELS]
invalid_models(sel) ==
    SelectSeq(sel, LAMBDA m :
                 m \notin {AVAILABLE_MODELS[k] : k \in 1..Len(AVAILABLE_MODELS)})

\* main, lines 543-547: --list-models is handled before anything is validated
list_models_first(a) == a.list_models

\* main, lines 543-570: "list" (exit 0), "exit1", or "go" with the list
\* handed to MultiModelAnalyzer (given FALSE: None)
main_validate(a) ==
    IF list_models_first(a) THEN [to |-> "list", sel |-> NoSelection]
    ELSE IF a.netlist = "missing" THEN [to |-> "exit1", sel |-> NoSelection]
    ELSE IF a.schematic = "missing" THEN [to |-> "exit1", sel |-> NoSelection]
    ELSE IF ~text_truthy(a.models) THEN [to |-> "go", sel |-> NoSelection]
    ELSE LET sel == selected_models(a.models) IN
         IF invalid_models(sel) # <<>>
         THEN [to |-> "exit1", sel |-> NoSelection]
         ELSE [to |-> "go", sel |-> Sel({sel[k] : k \in 1..Len(sel)})]

\* the script is started: nothing is constructed yet
MInit ==
    /\ CInit
    /\ selected = NoSelection
    /\ BAbsent /\ SIdle /\ LAbsent /\ GAbsent /\ FAbsent /\ DRest
    /\ args \in ArgInputs
    /\ mainpc = "start"
    /\ exit_code = -1

\* main up to the call of MultiModelAnalyzer(...)
main_parse ==
    /\ mainpc = "start"
    /\ LET v == main_validate(args) IN
         /\ mainpc' = IF v.to = "go" THEN "construct" ELSE "exited"
         /\ exit_code' = IF v.to = "list" THEN 0
                          ELSE IF v.to = "exit1" THEN 1 ELSE -1
         /\ selected' = v.sel
    /\ UNCHANGED <<errors, pc, avail, idx, results, reports, summary, ended,
                   cur, callio, outcomes, lastret, runs, directs>>
    /\ UNCHANGED <<args, cvars, svars, lvars, gvars, dvars, fvars>>

\* MultiModelAnalyzer.__init__, line 43: self.config_manager = ConfigManager()
main_config_manager ==
    /\ mainpc = "construct"
    /\ Construct(2)

\* the rest of MultiModelAnalyzer.__init__; an exception of ConfigManager()
\* leaves main and the interpreter exits with status 1
main_analyzer ==
    /\ mainpc = "construct"
    /\ st[2] # "unborn"
    /\ IF st[2] = "raised"
       THEN /\ mainpc' = "exited" /\ exit_code' = 1 /\ pc' = pc
       ELSE /\ mainpc' = "run" /\ exit_code' = exit_code /\ pc' = "idle"
    /\ UNCHANGED <<selected, errors, avail, idx, results, reports, summary,
                   ended, cur, callio, outcomes, lastret, runs, directs>>
    /\ UNCHANGED <<args, cvars, svars, lvars, gvars, dvars, fvars>>

\* main, line 575: results = analyzer.run_analysis(), called once
main_run_analysis ==
    /\ mainpc = "run"
    /\ runs = 0
    /\ run_analysis_start

\* main after run_analysis: the summary is printed and the script ends; an
\* exception that left run_analysis ends it with status 1
main_end ==
    /\ mainpc = "run"
    /\ pc = "idle"
    /\ runs = 1
    /\ mainpc' = "exited"
    /\ exit_code' = IF ended = "aborted" THEN 1 ELSE 0
    /\ UNCHANGED <<args, cvars, bvars, svars, lvars, gvars, dvars, fvars>>

NextMain ==
    \/ main_parse
    \/ main_config_manager
    \/ main_analyzer
    \/ main_run_analysis
    \/ run_analysis_next
    \/ run_analysis_return
    \/ run_analysis_finish
    \/ main_end

SpecMain == MInit /\ [][NextMain]_vars

\* ------------------------------------------------------- the findings file
\* bound: the number of findings handed to save_to_csv
MaxRows == 2

\* a text is a sequence of characters; a run of characters that are neither
\* "," nor a quote nor a line end nor a digit is written as one element
Digits == <<"0", "1", "2", "3", "4", "5", "6", "7", "8", "9">>

\* str(n) of an int, as csv.writer writes a field that is not a string
RECURSIVE str(_)
str(n) ==
    IF n < 0 THEN <<"-">> \o str(0 - n)
    ELSE IF n < 10 THEN <<Digits[n + 1]>>
    ELSE str(n \div 10) \o <<Digits[(n % 10) + 1]>>

\* a Finding with all its fields (models.py)
Finding5(id, level, description, recommendation, reference) ==
    [id |-> id, level |-> level, description |-> description,
     recommendation |-> recommendation, reference |-> reference]

\* findings whose texts hold what a CSV file treats specially: nothing at
\* all, a comma, quotes, line ends, blanks
CsvFindings ==
    { Finding5(2, <<"Minor">>, <<"d">>, <<"r">>, <<"U1">>),
      Finding5(1, <<"Fatal">>, <<"a", ",", "b">>, <<>>, <<"R5">>),
      Finding5(10, <<"Bogus">>, <<"\"", "q", "\"">>, <<"x", "\n", "y">>, <<>>),
      Finding5(-7, <<>>, <<"\"">>, <<"\r", "\n">>, <<",">>),
      Finding5(305, <<"Major">>, <<" ", "t", " ">>, <<"\"", ",", "\"", "\"">>,
               <<"N", "\r">>),
      Finding5(0, <<"Nice To Have">>, <<"1", "2">>, <<"-">>, <<"\n">>),
      Finding5(1, <<"Fatal">>, <<"d">>, <<"r">>, <<"U1">>) }

\* the lists handed to save_to_csv, in any order and with repetitions
CsvInputs ==
    UNION { [1..n -> CsvFindings] : n \in 0..MaxRows }

\* csv.writer, QUOTE_MINIMAL: a field is quoted when it holds the delimiter,
\* the quote character or a character of the line terminator
needs_quotes(field) ==
    \E i \in 1..Len(field) : field[i] \in {",", "\"", "\r", "\n"}

\* a plausible slip: the quotes inside a quoted field are not doubled
double_quotes_not(field) == field

\* csv.writer, doublequote: each quote character of the field is written twice
RECURSIVE double_quotes(_)
double_quotes(field) ==
    IF field = <<>> THEN <<>>
    ELSE (IF Head(field) = "\"" THEN <<"\"", "\"">> ELSE <<Head(field)>>)
             \o double_quotes(Tail(field))

\* csv.writer: one field as it is written
quote_field(field) ==
    IF needs_quotes(field)
    THEN <<"\"">> \o double_quotes(field) \o <<"\"">>
    ELSE field

\* csv.writer.writerow: the fields joined by "," and ended by "\r\n"
RECURSIVE writerow(_)
writerow(fields) ==
    IF fields = <<>> THEN <<"\r", "\n">>
    ELSE IF Len(fields) = 1 THEN quote_field(fields[1]) \o <<"\r", "\n">>
    ELSE quote_field(Head(fields)) \o <<",">> \o writerow(Tail(fields))

\* save_to_csv, lines 145-147: the header row
CsvHeader ==
    << <<"ID">>, <<"Level">>, <<"Description">>, <<"Recommendation">>,
       <<"Reference">> >>

\* save_to_csv, lines 150-159: one row per finding, in the order given
RECURSIVE write_findings(_)
write_findings(findings) ==
    IF findings = <<>> THEN <<>>
    ELSE LET f == Head(findings) IN
         writerow(<<str(f.id), f.level, f.description, f.recommendation,
                    f.reference>>) \o write_findings(Tail(findings))

\* save_to_csv: the text of the file
save_to_csv_text(findings) == writerow(CsvHeader) \o write_findings(findings)

\* csv.reader before it has read anything: the position in the text, the
\* state of the parser, and what was read of the current field and record
NoReader == [i |-> 1, state |-> "start_record", field |-> <<>>, row |-> <<>>]

Reader(i, state, field, row) ==
    [i |-> i, state |-> state, field |-> field, row |-> row]

\* csv.reader on the file opened with newline="": what the character at
\* position r.i makes of the parser r and of the rows read so far
reader_char(text, r, rows) ==
    LET c    == text[r.i]
        eol  == c \in {"\r", "\n"}
        \* "\r\n" is one line end
        nxt  == IF c = "\r" /\ r.i < Len(text) /\ text[r.i + 1] = "\n"
                THEN r.i + 2 ELSE r.i + 1
        \* the record ends: its fields are a row
        record(fields) == [r |-> Reader(nxt, "start_record", <<>>, <<>>),
                           rows |-> Append(rows, fields)]
        \* the parser goes on in the same record
        go(state, field, row) == [r |-> Reader(r.i + 1, state, field, row),
                                  rows |-> rows]
    IN
    IF r.state \in {"start_record", "start_field"}
    THEN IF eol
         THEN record(IF r.state = "start_record" THEN <<>> ELSE Append(r.row, <<>>))
         ELSE IF c = "\"" THEN go("in_quoted", <<>>, r.row)
         ELSE IF c = "," THEN go("start_field", <<>>, Append(r.row, <<>>))
         ELSE go("in_field", <<c>>, r.row)
    ELSE IF r.state = "in_field"
    THEN IF eol THEN record(Append(r.row, r.field))
         ELSE IF c = "," THEN go("start_field", <<>>, Append(r.row, r.field))
         ELSE go("in_field", Append(r.field, c), r.row)
    ELSE IF r.state = "in_quoted"
    THEN IF c = "\"" THEN go("quote_in_quoted", r.field, r.row)
         ELSE go("in_quoted", Append(r.field, c), r.row)
    ELSE \* "quote_in_quoted": a quote was read inside a quoted field
         IF c = "\"" THEN go("in_quoted", Append(r.field, c), r.row)
         ELSE IF c = "," THEN go("start_field", <<>>, Append(r.row, r.field))
         ELSE IF eol THEN record(Append(r.row, r.field))
         ELSE go("in_field", Append(r.field, c), r.row)

\* csv.reader at the end of the text: a record that was begun is a row
reader_end(r, rows) ==
    IF r.state = "start_record" THEN rows ELSE Append(rows, Append(r.row, r.field))

\* save_to_csv is about to be called with some list of findings
FInit ==
    /\ file = AbsentFile
    /\ clock = 0
    /\ st = [i \in Instances |-> "unborn"]
    /\ cfg = [i \in Instances |-> DefaultConfig]
    /\ hist = [i \in Instances |-> [p \in ProviderUniverse |-> "<none>"]]
    /\ lastop = NoOp
    /\ selected = NoSelection /\ BAbsent
    /\ SIdle /\ LAbsent /\ GAbsent /\ MAbsent /\ DRest
    /\ csv_findings \in CsvInputs
    /\ csv_file = NoneText
    /\ csv_rows = <<>>
    /\ csv_reader = NoReader
    /\ csv_pc = "idle"

\* MultiModelAnalyzer.save_to_csv
save_to_csv ==
    /\ csv_pc = "idle"
    /\ csv_file' = save_to_csv_text(csv_findings)
    /\ csv_pc' = "written"
    /\ UNCHANGED <<csv_findings, csv_rows, csv_reader>>
    /\ UNCHANGED <<cvars, bvars, svars, lvars, gvars, dvars, mvars>>

\* the file is read back with csv.reader: one character is consumed
read_csv_char ==
    /\ csv_pc = "written"
    /\ csv_reader.i <= Len(csv_file)
    /\ LET n == reader_char(csv_file, csv_reader, csv_rows) IN
         /\ csv_reader' = n.r
         /\ csv_rows' = n.rows
    /\ UNCHANGED <<csv_findings, csv_file, csv_pc>>
    /\ UNCHANGED <<cvars, bvars, svars, lvars, gvars, dvars, mvars>>

\* the reader is at the end of the file
read_csv_end ==
    /\ csv_pc = "written"
    /\ csv_reader.i > Len(csv_file)
    /\ csv_rows' = reader_end(csv_reader, csv_rows)
    /\ csv_pc' = "read"
    /\ UNCHANGED <<csv_findings, csv_file, csv_reader>>
    /\ UNCHANGED <<cvars, bvars, svars, lvars, gvars, dvars, mvars>>

NextCsv ==
    \/ save_to_csv
    \/ read_csv_char
    \/ read_csv_end

SpecCsv == FInit /\ [][NextCsv]_vars

\* the program is started as the batch script or as the plug-in dialog
AppInit ==
    \/ BInit
    \/ GInit

NextApp ==
    \/ NextBatch
    \/ NextGui

SpecApp == AppInit /\ [][NextApp]_vars

\* the batch script when every step of run_analysis that can be taken is
\* taken: the loop is sequential code, and a model call that is in progress
\* returns or raises
SpecBatchFair ==
    /\ BInit /\ [][NextBatch]_vars
    /\ WF_vars(run_analysis_next)
    /\ WF_vars(run_analysis_return)
    /\ WF_vars(run_analysis_finish)

\* the two sorters, each applied once to a list of findings
SInit ==
    /\ CInit /\ file = AbsentFile
    /\ selected = NoSelection /\ BIdle
    /\ LAbsent /\ GAbsent /\ MAbsent /\ FAbsent /\ DRest
    /\ unsorted \in FindingLists
    /\ gui_sorted = <<>>
    /\ html_sorted = <<>>
    /\ sort_done = {}

NextSort ==
    \/ analysis_complete_sort
    \/ save_to_html_sort

SpecSort == SInit /\ [][NextSort]_vars

\* ------------------------------------------------------------------ claims
SlashFree(s) == \A i \in 1..Len(s) : s[i] # "/"

\* m is p + "/" + x for some x
OfForm(p, m) ==
    /\ Len(m) > Len(p)
    /\ SubSeq(m, 1, Len(p)) = p
    /\ m[Len(p) + 1] = "/"

\* the longest prefix of m that holds no "/"
BeforeFirstSlash(m) ==
    LET n == CHOOSE k \in 0..Len(m) :
                 /\ \A i \in 1..k : m[i] # "/"
                 /\ (k < Len(m) => m[k + 1] = "/")
    IN  SubSeq(m, 1, n)

KeyOps == {"set_api_key_for_provider", "remove_api_key_for_provider",
           "set_api_key", "remove_api_key"}

\* the provider a key call was about
OpProvider(o) ==
    IF o.op \in {"set_api_key", "remove_api_key"}
    THEN _extract_provider_from_model(o.arg)
    ELSE o.arg

\* C1: for a provider p (a name without "/") and a model id "p/x",
\* get_api_key("p/x") is the key last stored for p while the last completed
\* key call for p is a set, and a step that is not a key call for p leaves
\* get_api_key("p/x") as it was.
C1_LastStoredKey ==
    /\ [](\A p \in ProviderUniverse, m \in ModelInputs :
            (SlashFree(p) /\ OfForm(p, m) /\ hist[1][p] \in KeyInputs)
                => get_api_key(cfg[1], m) = hist[1][p])
    /\ [][\A p \in ProviderUniverse, m \in ModelInputs :
            (SlashFree(p) /\ OfForm(p, m) /\ st[1] = "ok"
               /\ ~(lastop'.op \in KeyOps /\ OpProvider(lastop') = p))
                => get_api_key(cfg'[1], m) = get_api_key(cfg[1], m)]_vars

\* C1 witness: "k2" was stored for a after "k1", a call for b came last, and
\* the id with several slashes still gets "k2"
C1_Witness ==
    /\ hist[1][p_a] = "k2"
    /\ cfg[1].lu = 3
    /\ lastop.op \in KeyOps /\ OpProvider(lastop) = p_b
    /\ get_api_key(cfg[1], m_a_b_m) = "k2"

\* C2: once a key was set for p and then removed, with no later set,
\* get_api_key is None for every model id whose provider is p.
C2_RemovedKeyAbsent ==
    \A p \in ProviderUniverse, m \in ModelInputs :
        (_extract_provider_from_model(m) = p /\ hist[1][p] = "<removed>")
            => get_api_key(cfg[1], m) = NoneVal

\* C2 witness: the key of a was set, then removed
C2_Witness ==
    /\ hist[1][p_a] = "<removed>"
    /\ lastop.op = "remove_api_key_for_provider" /\ lastop.wrote = "ok"
    /\ get_api_key(cfg[1], m_a_b_m) = NoneVal

\* a file that is not a JSON object with the documented entries
Malformed(f) ==
    \/ f.kind \in {"badjson", "badenc"}
    \/ f.kind = "json" /\ (f.val.shape # "dict" \/ f.val.pk = "null")

GettersWork(c) ==
    /\ get_selected_model(c) # RaisesSeq
    /\ \A m \in ModelInputs : get_api_key(c, m) # Raises
    /\ \A p \in ProviderUniverse : get_all_provider_api_keys(c)[p] # Raises
    /\ RaisesSeq \notin get_providers_with_keys(c)

\* C7: loading never raises; on an absent or malformed file the
\* ConfigManager starts with the defaults and every getter works.
C7_LoadYieldsDefaults ==
    (lastop.op = "__init__" /\ (file.kind = "absent" \/ Malformed(file)))
        => /\ st[lastop.inst] = "ok"
           /\ cfg[lastop.inst] = DefaultConfig
           /\ GettersWork(cfg[lastop.inst])

Mutators == KeyOps \cup {"set_selected_model"}

\* what the last mutator was to change is what the getters return
Reflected(o, c) ==
    CASE o.op = "set_selected_model" -> get_selected_model(c) = o.arg
      [] o.op \in {"set_api_key_for_provider", "set_api_key"} ->
             get_all_provider_api_keys(c)[OpProvider(o)] = o.val
      [] o.op \in {"remove_api_key_for_provider", "remove_api_key"} ->
             get_all_provider_api_keys(c)[OpProvider(o)] = NoneVal
      [] OTHER -> TRUE

\* C8 as stated: when the write of a mutator fails, the call does not raise,
\* the getters return the new value and the file keeps its previous content.
C8_FileKeepsPreviousContent ==
    [][(lastop'.op \in Mutators /\ lastop'.wrote \in {"openfail", "truncated"})
         => /\ ~lastop'.raised
            /\ Reflected(lastop', cfg'[lastop'.inst])
            /\ file' = file]_vars

\* C8 amended: when the write of a mutator fails, the call does not raise
\* and the getters return the new value; the file keeps its previous content
\* when open() failed and is left truncated, no longer valid JSON, when the
\* failure came after open().
C8_WriteFailureSwallowed ==
    [][(lastop'.op \in Mutators /\ lastop'.wrote \in {"openfail", "truncated"})
         => /\ ~lastop'.raised
            /\ Reflected(lastop', cfg'[lastop'.inst])
            /\ (lastop'.wrote = "openfail" => file' = file)
            /\ (lastop'.wrote = "truncated" => file' = BadJsonFile)]_vars

\* C8 witness: set_selected_model("b") whose write failed after open(): the
\* getter returns "b" and the file is no longer the JSON it was
C8_Witness ==
    /\ lastop.op = "set_selected_model" /\ lastop.wrote = "truncated"
    /\ ~lastop.raised
    /\ get_selected_model(cfg[1]) = m_b
    /\ file = BadJsonFile

\* C9: with one ConfigManager, a call that changes the in-memory
\* configuration always reaches the write, and when the write succeeds the
\* file is the whole in-memory configuration with a fresh last_updated.
C9_FullRewrite ==
    [][(st[1] = "ok" /\ cfg'[1] # cfg[1])
         => /\ lastop'.op \in Mutators /\ lastop'.wrote # "none"
            /\ (lastop'.wrote = "ok"
                  => /\ file' = JsonFile(cfg'[1])
                     /\ cfg'[1].lu = clock' /\ clock' > clock)]_vars

\* C9 witness: after two successful mutations the file holds the selected
\* model, the key and the timestamp of the second write
C9_Witness ==
    /\ lastop.op = "remove_api_key_for_provider" /\ lastop.wrote = "ok"
    /\ cfg[1].lu = 3 /\ cfg[1].sm = m_a_n /\ cfg[1].keys[p_b] = "k1"
    /\ file = JsonFile(cfg[1])

\* C10: the provider of a model id is what precedes its first "/" (the whole
\* id without "/"); two ids with the same prefix always get the same result
\* from get_api_key; after set_api_key through one id every id with the same
\* prefix gets the new key, and after remove_api_key has deleted the key
\* through one id every id with the same prefix gets None.
C10_SharedProviderKey ==
    /\ \A m \in ModelInputs :
           _extract_provider_from_model(m) = BeforeFirstSlash(m)
    /\ \A m1, m2 \in ModelInputs :
           (st[1] = "ok" /\ BeforeFirstSlash(m1) = BeforeFirstSlash(m2))
               => get_api_key(cfg[1], m1) = get_api_key(cfg[1], m2)
    /\ (lastop.op = "set_api_key" /\ ~lastop.raised)
         => \A m \in ModelInputs :
               BeforeFirstSlash(m) = BeforeFirstSlash(lastop.arg)
                   => get_api_key(cfg[lastop.inst], m) = lastop.val
    /\ (lastop.op = "remove_api_key" /\ lastop.wrote # "none")
         => \A m \in ModelInputs :
               BeforeFirstSlash(m) = BeforeFirstSlash(lastop.arg)
                   => get_api_key(cfg[lastop.inst], m) = NoneVal

\* C10 witness: the key set through "a/b/m" is the key of "a/m"
C10_Witness ==
    /\ lastop.op = "set_api_key" /\ lastop.arg = m_a_b_m /\ lastop.val = "k2"
    /\ hist[1][p_a] = "k2"
    /\ get_api_key(cfg[1], m_a_m) = "k2"

\* ------------------------------------------------- claims: the batch driver
\* the provider of model id m has a stored, non-empty key in c
StoredKey(c, m) ==
    /\ c.shape = "dict" /\ c.pk = "map"
    /\ c.keys[BeforeFirstSlash(m)] \notin {NoneVal, ""}

\* position of m in the candidate list
PosIn(m) == CHOOSE k \in 1..Len(AVAILABLE_MODELS) : AVAILABLE_MODELS[k] = m

\* the candidates of a run: the fixed list, cut down to the caller's subset
Candidates ==
    {m \in ModelUniverse :
        /\ \E k \in 1..Len(AVAILABLE_MODELS) : AVAILABLE_MODELS[k] = m
        /\ (selected.given => m \in selected.models)}

Lacking == {m \in Candidates : ~StoredKey(cfg[2], m)}

\* the error text an analyze_with_model call recorded for what it met
TextOf(o) ==
    IF o.kind = "nokey" THEN NoKeyError(o.model) ELSE ExcError(o.text)

\* C3: in run_analysis no failure ends the run: the models are attempted in
\* the order of the available list, a model that failed has None as its
\* result and its error text in self.errors, a model that succeeded has its
\* own result, and the run ends only after every available model was
\* attempted.
C3_FailureIsolated ==
    /\ ended # "aborted"
    /\ pc \in {"loop", "call"} => Len(outcomes) = idx - 1
    /\ ended = "summary" => Len(outcomes) = Len(avail)
    /\ (pc \in {"loop", "call"} \/ ended = "summary") =>
         /\ Len(results) = Len(outcomes)
         /\ \A k \in 1..Len(outcomes) :
              /\ outcomes[k].model = avail[k]
              /\ results[k].model = avail[k]
              /\ outcomes[k].kind # "ok" => results[k].result = NoResult
              /\ outcomes[k].kind = "ok" =>
                    /\ results[k].result.kind = "ok"
                    /\ results[k].result.findings = outcomes[k].findings
    /\ pc \in {"loop", "call"} =>
         \A k \in 1..Len(outcomes) :
            outcomes[k].kind # "ok" => errors[avail[k]] = TextOf(outcomes[k])

\* C3 witness: the first model failed in the request, the second succeeded,
\* the third failed in the constructor, and the run reached its summary
C3_Witness ==
    /\ ended = "summary"
    /\ Len(outcomes) = 3
    /\ outcomes[1].kind = "raises"
    /\ outcomes[2].kind = "ok"
    /\ outcomes[3].kind = "ctor_raises"
    /\ results[1].result = NoResult
    /\ results[2].result.kind = "ok"
    /\ results[3].result = NoResult

\* C4 as stated: when exactly one of several candidates lacks a key, the
\* summary of the run has exactly one row whose reason is the missing key,
\* an ERROR row of that model.
C4_MissingKeyRow ==
    (ended \in {"summary", "empty"} /\ Cardinality(Lacking) = 1
       /\ Cardinality(Candidates) >= 2) =>
        /\ Cardinality({k \in 1..Len(summary) :
              summary[k].error = NoKeyError(summary[k].model)}) = 1
        /\ \E k \in 1..Len(summary) :
              /\ summary[k].model \in Lacking
              /\ summary[k].status = "ERROR"
              /\ summary[k].error = NoKeyError(summary[k].model)

\* C4 amended: when exactly one candidate lacks a key, that model is skipped
\* before any attempt: the summary has no row for it and no row with the
\* missing-key reason, and exactly one row for each other candidate, in
\* candidate order, SUCCESS or ERROR according to the outcome of its call
\* (no summary is written when there is no other candidate).
C4_MissingKeySkipped ==
    (ended \in {"summary", "empty"} /\ Cardinality(Lacking) = 1) =>
        /\ \A k \in 1..Len(summary) :
              /\ summary[k].model \notin Lacking
              /\ summary[k].error # NoKeyError(summary[k].model)
              /\ summary[k].status = (IF outcomes[k].kind = "ok" THEN "SUCCESS" ELSE "ERROR")
              /\ outcomes[k].model = summary[k].model
        /\ {summary[k].model : k \in 1..Len(summary)} = Candidates \ Lacking
        /\ \A i, j \in 1..Len(summary) :
              i < j => PosIn(summary[i].model) < PosIn(summary[j].model)
        /\ (ended = "empty") = (Candidates \ Lacking = {})

\* C4 witness: no selection, only the provider of "b/m" has no key; the
\* summary has the rows of the two other models, one ERROR and one SUCCESS
C4_Witness ==
    /\ ended = "summary"
    /\ ~selected.given
    /\ Lacking = {m_b_m}
    /\ Len(summary) = 2
    /\ summary[1].status = "ERROR" /\ summary[1].error = ExcError("timeout")
    /\ summary[2].status = "SUCCESS"

\* C5: a run that attempts at least one model ends with a summary that has
\* exactly one row per attempted model, in order: ERROR with zero counts and
\* the error text of the failure for a model that failed, SUCCESS with an
\* empty Error field for a model that succeeded.
C5_SummaryRowPerModel ==
    /\ ended # "aborted"
    /\ ended = "empty" => avail = <<>>
    /\ ended = "summary" =>
         /\ Len(avail) >= 1
         /\ Len(summary) = Len(avail)
         /\ Len(outcomes) = Len(avail)
         /\ \A k \in 1..Len(summary) :
              /\ summary[k].model = avail[k]
              /\ outcomes[k].model = avail[k]
              /\ outcomes[k].kind # "ok" =>
                    /\ summary[k].status = "ERROR"
                    /\ summary[k].total = 0 /\ summary[k].fatal = 0
                    /\ summary[k].major = 0 /\ summary[k].minor = 0
                    /\ summary[k].best = 0 /\ summary[k].nice = 0
                    /\ summary[k].tokens = 0
                    /\ summary[k].error = TextOf(outcomes[k])
              /\ outcomes[k].kind = "ok" =>
                    /\ summary[k].status = "SUCCESS"
                    /\ summary[k].error = EmptyError
                    /\ summary[k].total = Len(outcomes[k].findings)
         /\ \A i, j \in 1..Len(summary) :
              summary[i].model = summary[j].model => i = j

\* C5 witness: the second run of an analyzer; "a/m" failed in the first run
\* and succeeds now with three findings, "a/b/m" fails now
C5_Witness ==
    /\ ended = "summary"
    /\ runs = 2
    /\ Len(summary) >= 2
    /\ summary[1].model = m_a_m /\ summary[1].status = "SUCCESS"
    /\ summary[1].total = 3 /\ summary[1].error = EmptyError
    /\ errors[m_a_m] = ExcError("timeout")
    /\ summary[2].status = "ERROR" /\ summary[2].error = ExcError("bad provider")

\* C6: get_available_models_with_keys returns exactly the candidates whose
\* provider has a stored non-empty key and which belong to the caller's
\* subset when one is given, in candidate-list order, without duplicates.
C6_AvailableModels ==
    runs > 0 =>
        /\ {avail[k] : k \in 1..Len(avail)}
              = {m \in Candidates : StoredKey(cfg[2], m)}
        /\ \A i, j \in 1..Len(avail) :
              i < j => /\ avail[i] # avail[j]
                       /\ PosIn(avail[i]) < PosIn(avail[j])

\* C6 witness: keys for a only (the key of b is the empty string), the
\* caller asked for "a/b/m" and "b/m": exactly "a/b/m" is available
C6_Witness ==
    /\ runs > 0
    /\ cfg[2].keys[p_a] = "k1" /\ cfg[2].keys[p_b] = ""
    /\ selected = Sel({m_a_b_m, m_b_m})
    /\ avail = <<m_a_b_m>>

\* C11: get_selected_model returns the model id of the last completed
\* set_selected_model call; a ConfigManager constructed from an absent file,
\* from text that is not JSON or from a JSON object without a
\* "selected_model" entry returns "openai/gpt-4o-mini"; and no API-key call
\* changes what get_selected_model returns.
C11_SelectedModel ==
    /\ []((lastop.op = "set_selected_model" /\ lastop.wrote # "none")
            => get_selected_model(cfg[1]) = lastop.arg)
    /\ []((/\ lastop.op = "__init__" /\ ~lastop.raised
           /\ \/ file.kind \in {"absent", "badjson"}
              \/ /\ file.kind = "json" /\ file.val.shape = "dict"
                 /\ file.val.sm = Missing)
            => get_selected_model(cfg[1]) = DefaultModel)
    /\ [][lastop'.op \in KeyOps
            => get_selected_model(cfg'[1]) = get_selected_model(cfg[1])]_vars

\* C11 witness: "b" was selected, then a key was stored and written, and
\* get_selected_model still answers "b"
C11_Witness ==
    /\ lastop.op \in KeyOps /\ lastop.wrote = "ok"
    /\ hist[1][p_a] \in KeyInputs
    /\ get_selected_model(cfg[1]) = m_b
    /\ file.kind = "json" /\ file.val.sm = m_b

\* the place of a level in the order Fatal, Major, Minor, Best Practice,
\* Nice To Have; a level that is none of them comes after all five
Rank(level) ==
    IF \E k \in 1..Len(ALL_LEVELS) : ALL_LEVELS[k] = level
    THEN CHOOSE k \in 1..Len(ALL_LEVELS) : ALL_LEVELS[k] = level
    ELSE Len(ALL_LEVELS) + 1

\* out holds the findings of unsorted, each once, in the order of Rank, and
\* findings of one level are in their input order; tag gives the input
\* position of an element of out
SortedFor(out, tag(_)) ==
    /\ Len(out) = Len(unsorted)
    /\ {tag(out[k]) : k \in 1..Len(out)} = 1..Len(unsorted)
    /\ \A k \in 1..Len(out) : out[k].level = unsorted[tag(out[k])].level
    /\ \A i, j \in 1..Len(out) :
          i < j => \/ Rank(out[i].level) < Rank(out[j].level)
                   \/ /\ out[i].level = out[j].level
                      /\ tag(out[i]) < tag(out[j])
                   \/ /\ Rank(out[i].level) = Rank(out[j].level)
                      /\ tag(out[i]) < tag(out[j])

HtmlTag(f) == f.id
GuiTag(f) == f.description
LevelsOf(fs) == [k \in 1..Len(fs) |-> fs[k].level]

\* C12: each sorter returns a permutation of its input ordered Fatal, Major,
\* Minor, Best Practice, Nice To Have, with equal levels in input order and
\* unrecognised levels after all recognised ones; [Minor, Fatal, Nice To
\* Have, Major] becomes [Fatal, Major, Minor, Nice To Have]; and the dialog's
\* sorter and the batch HTML sorter put every input in the same order.
C12_SortedByPriority ==
    /\ "gui" \in sort_done => SortedFor(gui_sorted, GuiTag)
    /\ "html" \in sort_done => SortedFor(html_sorted, HtmlTag)
    /\ ("html" \in sort_done
          /\ LevelsOf(unsorted) = <<"Minor", "Fatal", "Nice To Have", "Major">>)
         => LevelsOf(html_sorted) = <<"Fatal", "Major", "Minor", "Nice To Have">>
    /\ sort_done = {"gui", "html"}
         => [k \in 1..Len(gui_sorted) |-> GuiTag(gui_sorted[k])]
              = [k \in 1..Len(html_sorted) |-> HtmlTag(html_sorted[k])]

\* C12 witness: both sorters have run on [Bogus, Minor, Fatal, Minor]: the
\* two Minor findings kept their order and the unknown level came last
C12_Witness ==
    /\ sort_done = {"gui", "html"}
    /\ LevelsOf(unsorted) = <<"Bogus", "Minor", "Fatal", "Minor">>
    /\ [k \in 1..4 |-> html_sorted[k].id] = <<3, 2, 4, 1>>
    /\ [k \in 1..4 |-> gui_sorted[k].description] = <<3, 2, 4, 1>>

\* where the model at position k of the available list is in the current run
Status(k) ==
    IF k <= Len(outcomes)
    THEN IF outcomes[k].kind = "ok" THEN "succeeded" ELSE "failed"
    ELSE IF pc = "call" /\ idx = k THEN "running"
    ELSE "not started"

StatusNum(k) ==
    CASE Status(k) = "not started" -> 0
      [] Status(k) = "running" -> 1
      [] OTHER -> 2

InRun == pc \in {"loop", "call"}

\* C13: in one run_analysis call the available models are called one at a
\* time in the order of the available list, each goes from not started to
\* running to succeeded or failed once and stays there (a failed model is
\* not called again); the run ends with the summary written and a result
\* mapping whose keys are the available models; and a run in which every
\* model call returns or raises reaches that end.
C13_ModelLifecycle ==
    /\ []((InRun \/ ended = "summary") =>
            /\ \A i, j \in 1..Len(avail) : i # j => avail[i] # avail[j]
            /\ Len(outcomes) = idx - 1
            /\ Len(outcomes) <= Len(avail)
            /\ \A k \in 1..Len(outcomes) : outcomes[k].model = avail[k]
            /\ [k \in 1..Len(results) |-> results[k].model]
                  = SubSeq(avail, 1, Len(outcomes))
            /\ pc = "call" => (idx <= Len(avail) /\ cur = avail[idx])
            /\ Cardinality({k \in 1..Len(avail) : Status(k) = "running"}) <= 1)
    /\ [](ended = "summary" =>
            /\ pc \notin {"loop", "call"}
            /\ Len(outcomes) = Len(avail)
            /\ [k \in 1..Len(results) |-> results[k].model] = avail
            /\ [k \in 1..Len(summary) |-> summary[k].model] = avail)
    /\ [][(runs' = runs /\ InRun) =>
            /\ avail' = avail
            /\ \A k \in 1..Len(avail) :
                  /\ StatusNum(k)' - StatusNum(k) \in {0, 1}
                  /\ StatusNum(k) = 2 => Status(k)' = Status(k)
                  /\ k <= Len(outcomes) => outcomes'[k] = outcomes[k]]_vars
    /\ (InRun ~> (pc = "idle" /\ ended = "summary"))

\* C13 witness: a run over two models has ended; the first failed, the
\* second succeeded
C13_Witness ==
    /\ ended = "summary" /\ Len(avail) = 2
    /\ Status(1) = "failed" /\ Status(2) = "succeeded"
    /\ results[1].model = avail[1] /\ results[2].model = avail[2]

Active(w) == worker[w].pc \in {"begin", "blocking", "finally"}

\* C14: at most one analysis worker is active at any time; from the Run
\* click until the worker has left its blocking call the Run button is
\* disabled, and Run is only clicked while no worker is active; the callbacks
\* waiting for the main thread never belong to two different runs.
C14_OneWorker ==
    /\ [](Cardinality({w \in 1..MaxClicks : Active(w)}) <= 1)
    /\ [](\A w \in 1..MaxClicks :
            worker[w].pc \in {"begin", "blocking"}
               => (~run_button.enabled /\ run_button.label = "Running..."))
    /\ [](\A i, j \in 1..Len(uiq) : uiq[i].by = uiq[j].by)
    /\ [](\A w \in 1..MaxClicks : Active(w) =>
            \A i \in 1..Len(uiq) : uiq[i].by = w)
    /\ [][clicks' # clicks =>
            /\ run_button.enabled /\ ~run_button'.enabled
            /\ \A w \in 1..MaxClicks : ~Active(w)
            /\ uiq = <<>>]_vars

\* C14 witness: the first run is over and its callbacks were handled, Run
\* was clicked again and the second worker is inside core.run
C14_Witness ==
    /\ clicks = 2
    /\ worker[1].pc = "done" /\ worker[2].pc = "blocking"
    /\ ~run_button.enabled
    /\ Len(shown) > 0

\* C15: an analyze_schematic_and_netlist call whose schematic is None or
\* empty sends the request an analyze_netlist call on the same netlist
\* sends (for a "google/" model one string of prompt and netlist, else the
\* prompt block and the cached netlist block), that one request only, and
\* ends as create() ends.
C15_FallbackIsNetlistOnly ==
    (lcall.method = "analyze_schematic_and_netlist"
       /\ ~text_truthy(lcall.schematic)) =>
        /\ requests = <<netlist_messages(lmodel, lcall.netlist)>>
        /\ requests[1].blocks[Len(requests[1].blocks)].text
              = IF lmodel = m_g_m
                THEN USER_PROMPT_TEMPLATE \o lcall.netlist
                ELSE lcall.netlist
        /\ lcall.outcome = "ok" => lret = "result"
        /\ lcall.outcome = "raises" => lret = "raised"

\* C15 witness: a call with an empty schematic has returned a result for a
\* model that is not a "google/" one
C15_Witness ==
    /\ lcall.method = "analyze_schematic_and_netlist"
    /\ lcall.schematic = <<>> /\ lcall.netlist = <<"N">>
    /\ lmodel = m_a_m
    /\ lret = "result"
    /\ Len(requests) = 1 /\ Len(requests[1].blocks) = 2

\* C16: every analyze_netlist or analyze_schematic_and_netlist call passes
\* exactly one request to create(); when create() raises, the call ends by
\* raising, with no further request and no AnalysisResult.
C16_OneRequest ==
    /\ [](lcall.method # "none" => Len(requests) = 1)
    /\ [](lcall.outcome = "raises" => lret = "raised")
    /\ [](lcall.outcome = "ok" => lret = "result")
    /\ [][lcalls' = lcalls => requests' = requests]_vars

\* C16 witness: an analyze_schematic_and_netlist call with a schematic has
\* ended by raising
C16_Witness ==
    /\ lcall.method = "analyze_schematic_and_netlist"
    /\ lcall.schematic = <<"S">>
    /\ lcall.outcome = "raises" /\ lret = "raised"
    /\ lpc = "idle" /\ Len(requests) = 1

\* the dialog's selected model has no stored key
DialogLacksKey ==
    /\ get_selected_model(cfg[1]) # RaisesSeq
    /\ get_api_key(cfg[1], get_selected_model(cfg[1])) \in {NoneVal, ""}

\* C17: an analysis asked for a model without a stored API key constructs no
\* client and issues no request. In the batch driver analyze_with_model
\* records the error text naming the model as that model's entry, returns no
\* result and leaves the other models' entries alone, and the analyzer is
\* ready for the next call. In the dialog the worker posts an error box that
\* names the model and then the button reset, core.run is not entered, and
\* once the worker's callbacks are handled Run is enabled again.
C17_MissingKeyAborts ==
    /\ [][(directs' = directs + 1 /\ ~StoredKey(cfg[2], cur')) =>
            /\ callio' = NoIO
            /\ pc' = "idle"
            /\ errors'[cur'].text = "No API key found for model"
            /\ errors'[cur'].model = cur'
            /\ lastret'[cur'] = "absent"
            /\ \A m \in ModelUniverse \ {cur'} :
                  errors'[m] = errors[m] /\ lastret'[m] = lastret[m]
            /\ UNCHANGED <<results, reports, summary, ended>>]_vars
    /\ [][\A w \in 1..MaxClicks :
            (worker[w].pc = "begin" /\ worker'[w].pc # "begin" /\ DialogLacksKey) =>
               /\ worker'[w].pc = "finally"
               /\ core_io' = core_io /\ lastrun' = lastrun
               /\ Len(uiq') = Len(uiq) + 1
               /\ LET cb == uiq'[Len(uiq')] IN
                    /\ cb.fn = "_show_error"
                    /\ cb.msg.text = "No API key configured for"
                    /\ cb.msg.model = get_selected_model(cfg[1])
                    /\ cb.msg.title = "Configuration Error"]_vars
    /\ [][(uiq # <<>> /\ uiq' = Tail(uiq) /\ Head(uiq).fn = "_show_error")
            => shown' = Append(shown, Head(uiq).msg)]_vars
    /\ []((dlg = "open" /\ uiq = <<>> /\ \A w \in 1..MaxClicks : ~Active(w))
            => run_button = RunButton)
    /\ [](DialogLacksKey => (core_io = NoIO /\ lastrun = NoRun))

\* C17 witness: analyze_with_model was called for "b", which has no key; it
\* recorded the error and made no client; afterwards a run_analysis call
\* got a result for "a/m"
C17_Witness ==
    /\ directs = 1
    /\ errors[m_b] = NoKeyError(m_b) /\ lastret[m_b] = "absent"
    /\ ended = "summary"
    /\ lastret[m_a_m] = "result"

Succeeded(e) == e.result.kind = "ok"
SucceededWithFindings(e) == e.result.kind = "ok" /\ e.result.findings # <<>>
ModelsOf(seq) == [k \in 1..Len(seq) |-> seq[k].model]

\* C18 as stated: when a run has ended, there is one findings report for
\* each model that returned a result, in the order of the calls.
C18_ReportPerSuccess ==
    ended = "summary" => ModelsOf(reports) = ModelsOf(SelectSeq(results, Succeeded))

\* C18: when a run has ended, there is one findings report for each model
\* that returned a result with at least one finding, in the order of the
\* calls, and none for any other model; every model of the run, with or
\* without a report, has its summary row.
C18_ReportPerSuccessWithFindings ==
    ended = "summary" =>
        /\ ModelsOf(reports) = ModelsOf(SelectSeq(results, SucceededWithFindings))
        /\ \A k \in 1..Len(reports) :
              \E j \in 1..Len(results) :
                 /\ results[j].model = reports[k].model
                 /\ Len(reports[k].rows) = Len(results[j].result.findings)
        /\ ModelsOf(summary) = ModelsOf(results)

\* C18 witness: a run over two models that both returned a result, one with
\* findings and one without, wrote a single report
C18_Witness ==
    /\ ended = "summary"
    /\ Len(results) = 2
    /\ Succeeded(results[1]) /\ Succeeded(results[2])
    /\ results[1].result.findings = <<>> /\ results[2].result.findings # <<>>
    /\ ModelsOf(reports) = <<results[2].model>>

\* C19: when a run in which some model call failed has ended, every report
\* the run wrote carries the error banner.
C19_BannerOnEveryReport ==
    (ended = "summary" /\ \E k \in 1..Len(outcomes) : outcomes[k].kind # "ok")
        => \A k \in 1..Len(reports) : reports[k].banner

\* the last core.run call reached the export and the export gave no netlist
ExportGaveNothing ==
    /\ lastrun.o \notin {"none", "ctor_raises"}
    /\ \/ ~lastrun.env.docs
       \/ lastrun.env.project = "nopath"
       \/ ~lastrun.env.binary
       \/ lastrun.env.cli = "CalledProcessError"
       \/ lastrun.env.netlist = <<>>
    /\ lastrun.env.kicad = "ok" /\ lastrun.env.project # "none"
    /\ lastrun.env.cli \in {"ok", "CalledProcessError"}

\* C20: when the export gives no netlist (no PCB document open, no project
\* path, no kicad-cli path, kicad-cli failing, or an empty netlist file),
\* core.run issues no request and returns absent findings, an absent project
\* path and a TokenUsage whose counters are all zero; the dialog's worker
\* posts that result to the main thread.
C20_NoNetlistNoRequest ==
    /\ [](ExportGaveNothing =>
            /\ lastrun.call.requests = 0
            /\ lastrun.call.ret.kind = "ret"
            /\ lastrun.call.ret.absent
            /\ lastrun.call.ret.project_path = NoneVal
            /\ \A f \in DOMAIN lastrun.call.ret.usage :
                  lastrun.call.ret.usage[f] = 0)
    /\ [][(lastrun' # lastrun /\ ExportGaveNothing') =>
            /\ core_io'.requests = core_io.requests
            /\ uiq'[Len(uiq')].fn = "_analysis_complete"
            /\ uiq'[Len(uiq')].ret = lastrun'.call.ret]_vars

\* C20 witness: kicad-cli was not found; core.run returned absent findings
\* without a request, and the main thread has shown the no-findings box
C20_Witness ==
    /\ ExportGaveNothing /\ ~lastrun.env.binary
    /\ lastrun.o = "ok"
    /\ lastrun.call.ret.absent
    /\ core_io.requests = 0 /\ core_io.clients = 1
    /\ shown = <<NoFindingsMsg>>

\* the getter shows no entry for provider p
NoEntry(c, p) == get_all_provider_api_keys(c)[p] \in {NoneVal, Raises}

\* C30: a remove_api_key_for_provider call for a provider without an entry
\* leaves the in-memory configuration (selected model, every key,
\* last_updated) and the file as they were, and reads no clock.
C30_RemoveAbsentIsNoOp ==
    [][(lastop'.op = "remove_api_key_for_provider" /\ NoEntry(cfg[1], lastop'.arg))
         => (cfg' = cfg /\ file' = file /\ clock' = clock)]_vars

\* C30 witness: "k1" is stored for "a" and written; then the key of "b",
\* which has no entry, was removed: nothing was written
C30_Witness ==
    /\ lastop.op = "remove_api_key_for_provider" /\ lastop.arg = p_b
    /\ lastop.wrote = "none" /\ ~lastop.raised
    /\ clock = 1
    /\ cfg[1].keys[p_a] = "k1" /\ cfg[1].keys[p_b] = NoneVal
    /\ file = JsonFile(cfg[1])

\* C29: in every SUCCESS row of the summary the total is the number of
\* findings of the model, the five level columns add up to at most the
\* total, and to exactly the total just when every finding of the model has
\* one of the five levels.
C29_SummaryCounts ==
    ended = "summary" =>
      \A k \in 1..Len(summary) :
        summary[k].status = "SUCCESS" =>
          LET row == summary[k]
              fs  == results[k].result.findings
              sum == row.fatal + row.major + row.minor + row.best + row.nice
          IN  /\ row.model = results[k].model
              /\ row.total = Len(fs)
              /\ sum <= row.total
              /\ (sum = row.total) <=>
                    \A i \in 1..Len(fs) :
                       \E j \in 1..Len(ALL_LEVELS) : fs[i].level = ALL_LEVELS[j]

\* C29 witness: a SUCCESS row for three findings of which one has an
\* unknown level: total 3, level columns 0 + 0 + 1 + 0 + 0 and 1 for Fatal
C29_Witness ==
    /\ ended = "summary"
    /\ \E k \in 1..Len(summary) :
          /\ summary[k].status = "SUCCESS"
          /\ summary[k].total = 3
          /\ summary[k].fatal = 1 /\ summary[k].minor = 1
          /\ summary[k].major + summary[k].best + summary[k].nice = 0

\* C28: whenever no call is in progress, a model id has an entry in the
\* errors map exactly when its most recent analyze_with_model call returned
\* absent.
C28_ErrorsMatchLastCall ==
    pc = "idle" =>
        \A m \in ModelUniverse : (errors[m] # NoError) <=> (lastret[m] = "absent")

\* sub occurs in text as a run of consecutive pieces
Contains(text, sub) ==
    \E i \in 0..(Len(text) - Len(sub)) : SubSeq(text, i + 1, i + Len(sub)) = sub

\* the text of the user message of a request
UserText(msgs) ==
    IF Len(msgs.blocks) = 1 THEN msgs.blocks[1].text
    ELSE msgs.blocks[1].text \o msgs.blocks[2].text

\* C24: the user message of an analyze_schematic_and_netlist call with a
\* schematic that is not empty contains the schematic and the netlist.
C24_PromptHasBoth ==
    (lcall.method = "analyze_schematic_and_netlist"
        /\ text_truthy(lcall.schematic) /\ Len(requests) = 1) =>
        /\ Contains(UserText(requests[1]), lcall.schematic)
        /\ Contains(UserText(requests[1]), lcall.netlist)
\* C22: ConfigManagers do not coordinate.  Every write that succeeds leaves
\* in the file exactly the in-memory configuration of the ConfigManager that
\* wrote, so a key another ConfigManager had put in the file is gone after
\* any successful mutation by one that does not hold it.
C22_WholeFileFromOwnCopy ==
    [][\A i \in Instances :
          (lastop'.inst = i /\ lastop'.wrote = "ok")
              => /\ file' = JsonFile(cfg'[i])
                 /\ \A p \in ProviderUniverse :
                        (file.kind = "json" /\ file.val.keys[p] # NoneVal
                           /\ cfg'[i].keys[p] = NoneVal)
                            => file'.val.keys[p] = NoneVal]_vars

\* C22 witness, the lost update: 1 and 2 were loaded from the same file, 1
\* stored "k1" for provider "a" with the first write (3, constructed after
\* it, read that key from the file), then 2 selected a model and its write
\* succeeded: the file no longer has a key for "a"
C22_Witness ==
    /\ st[1] = "ok" /\ st[2] = "ok" /\ st[3] = "ok"
    /\ hist[1][p_a] = "k1" /\ cfg[1].keys[p_a] = "k1" /\ cfg[1].lu = 1
    /\ cfg[3] = cfg[1]
    /\ cfg[2].sm = m_a_n /\ cfg[2].lu = 2
    /\ lastop.op = "set_selected_model" /\ lastop.inst = 2 /\ lastop.wrote = "ok"
    /\ clock = 2
    /\ file = JsonFile(cfg[2]) /\ file.val.keys[p_a] = NoneVal

\* the models named in a --models text: its non-empty entries
NamedModels(models) ==
    IF models = NoneText THEN {}
    ELSE LET parts == split(models, ",") IN
         {strip(parts[k]) : k \in 1..Len(parts)} \ {<<>>}

\* the command line names a netlist that does not exist or a model that is
\* not a known candidate
BadArgs(a) ==
    \/ a.netlist = "missing"
    \/ \E m \in NamedModels(a.models) :
           \A k \in 1..Len(AVAILABLE_MODELS) : AVAILABLE_MODELS[k] # m

\* the script is over with status 1, no analyzer and no ConfigManager was
\* constructed and no model call was made
ExitedEarly ==
    /\ mainpc = "exited" /\ exit_code = 1
    /\ BAbsent /\ st[2] = "unborn" /\ LAbsent

RECURSIVE int(_)
int(text) ==
    IF text # <<>> /\ Head(text) = "-" THEN 0 - int(Tail(text))
    ELSE IF text = <<>> THEN 0
    ELSE 10 * int(SubSeq(text, 1, Len(text) - 1))
           + (CHOOSE d \in 0..9 : Digits[d + 1] = text[Len(text)])

\* the tuple a re-read row stands for
RowTuple(row) == Finding5(int(row[1]), row[2], row[3], row[4], row[5])

\* C23: the rows read back from the file written by save_to_csv are the
\* header and then one row of five fields per finding, the k-th row giving
\* the (id, level, description, recommendation, reference) of the k-th
\* finding of the input.
C23_CsvRoundTrip ==
    csv_pc = "read"
        => /\ Len(csv_rows) = Len(csv_findings) + 1
           /\ csv_rows[1] = CsvHeader
           /\ \A k \in 1..Len(csv_findings) :
                  /\ Len(csv_rows[k + 1]) = 5
                  /\ RowTuple(csv_rows[k + 1]) = csv_findings[k]

\* C23 witness: two findings, the less severe first, with commas, quotes and
\* line ends in their texts, were written and read back
C23_Witness ==
    /\ csv_pc = "read"
    /\ csv_findings =
          << Finding5(305, <<"Major">>, <<" ", "t", " ">>,
                      <<"\"", ",", "\"", "\"">>, <<"N", "\r">>),
             Finding5(-7, <<>>, <<"\"">>, <<"\r", "\n">>, <<",">>) >>
    /\ Len(csv_rows) = 3
    /\ csv_rows[2][4] = <<"\"", ",", "\"", "\"">>
    /\ csv_rows[3][4] = <<"\r", "\n">>

\* C26: whenever the dialog is at rest, the rows of the list are what
\* apply_current_filters gives for the findings and the checkboxes as they
\* are: every finding with "All" checked, else the findings whose level
\* checkbox is checked.
C26_DisplayMatchesFilters ==
    filtered_findings = apply_current_filters(self_findings, all_checkbox, checkboxes)

\* C27: an exported report names the model whose analysis gave the findings
\* the dialog holds.
C27_ReportNamesAnalysisModel ==
    exported # NoReport => exported.model = findings_by

\* the main thread has run the result or error callback of worker w
Handed(w) ==
    \E k \in 1..Len(handled) :
        handled[k].by = w /\ handled[k].fn \in {"_show_error", "_analysis_complete"}

\* the reset posted by worker w waits in the queue of the main thread
ResetPending(w) ==
    \E k \in 1..Len(uiq) : uiq[k].fn = "_reset_run_button" /\ uiq[k].by = w

\* C25: when the worker threads run, core.run returns and the main thread
\* runs its callbacks, a disabled Run button always becomes enabled again
\* with the label "Run"; the step that enables it is the reset posted by the
\* worker of the last click, taken after the main thread ran that worker's
\* result or error callback; and while the button is disabled that worker
\* has not ended or its reset still waits in the queue.
C25_RunReenabled ==
    /\ (~run_button.enabled) ~> (run_button = RunButton)
    /\ [][(~run_button.enabled /\ run_button'.enabled)
            => /\ run_button' = RunButton
               /\ Head(uiq).fn = "_reset_run_button" /\ Head(uiq).by = clicks
               /\ Handed(clicks)]_vars
    /\ [](~run_button.enabled
            => (clicks >= 1 /\ (Active(clicks) \/ ResetPending(clicks))))

\* C25 witness: two runs are over, the first ended for the missing key or
\* an exception, the second gave findings, and Run is enabled again
C25_Witness ==
    /\ run_button = RunButton
    /\ clicks = 2 /\ worker[1].pc = "done" /\ worker[2].pc = "done"
    /\ uiq = <<>>
    /\ handled = << [fn |-> "_show_error", by |-> 1],
                    [fn |-> "_reset_run_button", by |-> 1],
                    [fn |-> "_analysis_complete", by |-> 2],
                    [fn |-> "_reset_run_button", by |-> 2] >>
    /\ self_findings # <<>>

====
